---- MODULE Spec2Model ----
(***************************************************************************)
(* Sanctuary API: the record store (api/src/db/index.ts) and the request   *)
(* handlers of api/src/routes (backups.ts), as a state machine.            *)
(*                                                                         *)
(* The server is one Node.js process. A handler body runs on the event     *)
(* loop until it returns or reaches an await; better-sqlite3 calls are     *)
(* synchronous. `running` is the handler that holds the event loop.        *)
(***************************************************************************)
EXTENDS Integers, Sequences, FiniteSets, TLC

VARIABLES
    now,        \* Math.floor(Date.now() / 1000)
    users,      \* table users (github_id)
    agents,     \* table agents (rows)
    backups,    \* table backups (rows)
    challenges, \* table auth_challenges (rows)
    inflight,   \* upload handlers between the daily-limit check and the insert
    running,    \* the handler that holds the event loop (0: none)
    attempts,   \* challenge verifications between the read and the mark
    retired,    \* history: the nonces that have been consumed or have expired
    last,       \* the reply being sent ("none": it has gone out)
    heartbeats,   \* table heartbeats (rows)
    trustScores,  \* table trust_scores (rows)
    notes,        \* table attestation_notes (rows)
    attestations, \* the ledger's attestation facts
    singleton,    \* the module's db: the SanctuaryDb it holds (0: null)
    instances     \* the SanctuaryDb objects constructed, in order

vars == <<now, users, agents, backups, challenges, inflight, running, attempts,
          retired, last, heartbeats, trustScores, notes, attestations,
          singleton, instances>>

\* The tables and facts that the upload, register and challenge operations
\* neither read nor write.
others == <<heartbeats, trustScores, notes, attestations, singleton, instances>>

-----------------------------------------------------------------------------
(* Bounds of the model *)

\* Days of clock the model runs through after the start.
Days == 1
\* Upload handlers that may be suspended between check and insert.
MaxInFlight == 2

-----------------------------------------------------------------------------
(* Program constants *)

SECONDS_PER_DAY == 24 * 60 * 60

backupSizeLimit == 5 * 1024 * 1024

challengeTtlSeconds == 300

-----------------------------------------------------------------------------
(* The clock: the instants at which anything happens *)

StartTime == 20000 * SECONDS_PER_DAY

Offsets == {0, 1, SECONDS_PER_DAY - 1}

Instants == {StartTime + d * SECONDS_PER_DAY + o : d \in 0..Days, o \in Offsets}

-----------------------------------------------------------------------------
(* Identifiers *)

AgentIds == {"0xaa", "0xbb"}

GithubIds == {"gh1", "gh2"}

\* String.prototype.toLowerCase on the strings of the model.
ToLowerCase(s) ==
    CASE s = "0xAA" -> "0xaa"
      [] s = "0xBB" -> "0xbb"
      [] OTHER -> s

\* isValidAddress (utils/crypto): an address of the model.
isValidAddress(s) == ToLowerCase(s) \in AgentIds

\* normalizeAddress (utils/crypto): the canonical form of an address.
normalizeAddress(s) == ToLowerCase(s)

-----------------------------------------------------------------------------
(* JavaScript values of a parsed JSON document *)

Undefined == [t |-> "undefined", s |-> "", n |-> 0]
Null      == [t |-> "null",      s |-> "", n |-> 0]
Str(x)    == [t |-> "string",    s |-> x,  n |-> 0]
Num(k)    == [t |-> "number",    s |-> "", n |-> k]
Obj       == [t |-> "object",    s |-> "", n |-> 0]
Bool      == [t |-> "boolean",   s |-> "", n |-> 1]

\* typeof v
TypeOf(v) == IF v.t = "null" THEN "object" ELSE v.t

\* !v
Falsy(v) ==
    \/ v.t \in {"undefined", "null"}
    \/ v.t = "string" /\ v.s = ""
    \/ v.t = "number" /\ v.n = 0
    \/ v.t = "boolean" /\ v.n = 0

-----------------------------------------------------------------------------
(* The X-Backup-Header document (unnamed/part_000: BackupHeader) *)

\* A header with every field of BackupHeader, as the client builds it.
GoodHeader(agentId) ==
    [ t                |-> "object",
      version          |-> Str("1"),
      agent_id         |-> Str(agentId),
      backup_id        |-> Str("bk"),
      backup_seq       |-> Num(1),
      timestamp        |-> Num(1234),
      manifest_hash    |-> Str("0xm1"),
      manifest_version |-> Num(1),
      prev_backup_hash |-> Str("0xprev"),
      files            |-> Obj,
      wrapped_keys     |-> Obj,
      wk_recovery      |-> Str("wkrec"),
      wk_recall        |-> Str("wkcall"),
      signature        |-> Str("0xsig") ]

\* The sample values a field of the document may hold, by name.
SampleValue(name) ==
    CASE name = "undefined" -> Undefined
      [] name = "null"      -> Null
      [] name = "string"    -> Str("x")
      [] name = "empty"     -> Str("")
      [] name = "number"    -> Num(7)
      [] name = "zero"      -> Num(0)
      [] name = "object"    -> Obj
      [] name = "boolean"   -> Bool

\* The X-Backup-Header value: base64 of a JSON text. The model writes the
\* value as <<top, agentId, field, value>>: the text of GoodHeader(agentId)
\* with `field` set to the sample `value` ("none": no field changed), or of
\* the JSON null (top = "null"); top = "absent": no such request header;
\* top = "invalid": a value that is not base64 JSON.
ParseDocument(headerB64) ==
    LET top == headerB64[1]  agentId == headerB64[2]
        field == headerB64[3]  value == headerB64[4]
    IN  IF top = "null" THEN [GoodHeader(agentId) EXCEPT !.t = "null"]
        ELSE IF field = "none" THEN GoodHeader(agentId)
        ELSE [GoodHeader(agentId) EXCEPT ![field] = SampleValue(value)]

HeaderTops == {"object", "null", "absent", "invalid"}

HeaderAgentIds == {"0xaa", "0xAA", "0xbb"}

HeaderFields ==
    {"version", "agent_id", "backup_id", "backup_seq", "timestamp", "manifest_hash",
     "manifest_version", "prev_backup_hash", "files", "wrapped_keys", "wk_recovery",
     "wk_recall", "signature"}

SampleValues ==
    {"undefined", "null", "string", "empty", "number", "zero", "object", "boolean"}

\* Every header value of the model.
HeaderValues ==
    (HeaderTops \X (HeaderAgentIds \cup {""}) \X {"none"} \X {""})
    \cup ({"object"} \X HeaderAgentIds \X HeaderFields \X SampleValues)

\* JSON.parse(Buffer.from(headerB64, 'base64').toString('utf-8'))
ParseHeader(headerB64) == ParseDocument(headerB64)

\* header.wrapped_keys.recovery / .recall: a property read on an object.
WrappedKey(header, which) ==
    IF header.wrapped_keys.t # "object" THEN Undefined
    ELSE IF which = "recovery" THEN header.wk_recovery ELSE header.wk_recall

\* validateBackupHeader: "" is the source's null (a valid header).
validateBackupHeader(header) ==
    IF TypeOf(header) # "object" \/ header.t = "null"
        THEN "Backup header must be a JSON object"
    ELSE IF TypeOf(header.agent_id) # "string" \/ Falsy(header.agent_id)
        THEN "Missing or invalid field: agent_id (string)"
    ELSE IF TypeOf(header.backup_id) # "string" \/ Falsy(header.backup_id)
        THEN "Missing or invalid field: backup_id (string)"
    ELSE IF TypeOf(header.backup_seq) # "number"
        THEN "Missing or invalid field: backup_seq (number)"
    ELSE IF TypeOf(header.timestamp) # "number"
        THEN "Missing or invalid field: timestamp (number)"
    ELSE IF TypeOf(header.manifest_hash) # "string"
        THEN "Missing or invalid field: manifest_hash (string)"
    ELSE IF TypeOf(header.files) # "object" \/ header.files.t = "null"
        THEN "Missing or invalid field: files (object)"
    ELSE IF TypeOf(header.wrapped_keys) # "object" \/ header.wrapped_keys.t = "null"
        THEN "Missing or invalid field: wrapped_keys (object)"
    ELSE IF \/ TypeOf(WrappedKey(header, "recovery")) # "string"
            \/ TypeOf(WrappedKey(header, "recall")) # "string"
        THEN "wrapped_keys must contain recovery and recall strings"
    ELSE IF TypeOf(header.signature) # "string" \/ Falsy(header.signature)
        THEN "Missing or invalid field: signature (string)"
    ELSE ""

-----------------------------------------------------------------------------
(* The record store: SanctuaryDb (api/src/db/index.ts) *)

AgentRows(db, agentId) == {a \in db : a.agent_id = agentId}

\* getAgent: the row or NoRow
NoRow == [none |-> TRUE]

getAgent(agentId) ==
    IF AgentRows(agents, agentId) = {} THEN NoRow
    ELSE CHOOSE a \in AgentRows(agents, agentId) : TRUE

getAgentByGithubId(githubId) ==
    IF \E a \in agents : a.github_id = githubId
    THEN CHOOSE a \in agents : a.github_id = githubId
    ELSE NoRow

getUser(githubId) == IF githubId \in users THEN [github_id |-> githubId] ELSE NoRow

\* INSERT INTO agents: PRIMARY KEY agent_id, UNIQUE github_id, FOREIGN KEY
\* github_id REFERENCES users. A violated constraint throws and inserts nothing.
AgentInsertable(row) ==
    /\ \A a \in agents : a.agent_id # row.agent_id /\ a.github_id # row.github_id
    /\ row.github_id \in users

createAgent(row) == IF AgentInsertable(row) THEN agents \cup {row} ELSE agents

\* UPDATE agents SET status = ? WHERE agent_id = ?
updateAgentStatus(agentId, status) ==
    {IF a.agent_id = agentId THEN [a EXCEPT !.status = status] ELSE a : a \in agents}

BackupsOf(agentId) == {b \in backups : b.agent_id = agentId}

\* SELECT * FROM backups WHERE agent_id = ? ORDER BY backup_seq DESC LIMIT 1
getLatestBackup(agentId) ==
    IF BackupsOf(agentId) = {} THEN NoRow
    ELSE CHOOSE b \in BackupsOf(agentId) :
            \A c \in BackupsOf(agentId) : c.backup_seq <= b.backup_seq

getBackupCount(agentId) == Cardinality(BackupsOf(agentId))

getNextBackupSeqOfAll(agentId) == Cardinality(backups) + 1

\* A sequence that leaves a number out.
getNextBackupSeqSkipping(agentId) ==
    IF BackupsOf(agentId) = {} THEN 1
    ELSE 2 + (CHOOSE n \in {b.backup_seq : b \in BackupsOf(agentId)} :
                 \A b \in BackupsOf(agentId) : b.backup_seq <= n)

getNextBackupSeq(agentId) ==
    LET latest == getLatestBackup(agentId)
    IN  IF latest # NoRow THEN latest.backup_seq + 1 ELSE 1

\* An insert that takes the place of the agent's earlier records.
createBackupReplacing(row) ==
    {b \in backups : b.agent_id # row.agent_id} \cup {row}

\* INSERT INTO backups: PRIMARY KEY id, FOREIGN KEY agent_id REFERENCES agents.
createBackup(row) ==
    IF /\ \A b \in backups : b.id # row.id
       /\ \E a \in agents : a.agent_id = row.agent_id
    THEN backups \cup {row}
    ELSE backups

\* uuidv4(): an id no stored backup has.
uuidv4 == Cardinality(backups) + 1

-----------------------------------------------------------------------------
(* POST /backups/upload (api/src/routes/backups.ts) *)

\* The event loop is free and the previous reply has gone out.
Idle == running = 0 /\ last.op = "none"

\* Math.floor(x / 3600)
FloorHours(x) == x \div 3600

\* Math.ceil(x / 3600) for x > 0
CeilHours(x) == (x + 3599) \div 3600

Response(status, error, sigChecked, calls) ==
    [status |-> status, error |-> error, sigChecked |-> sigChecked, calls |-> calls]

\* backupHeader.agent_id.toLowerCase() !== agentId.toLowerCase()
HeaderAgentMismatchExact(header, agentId) == header.agent_id.s # agentId

HeaderAgentMismatch(header, agentId) ==
    ToLowerCase(header.agent_id.s) # ToLowerCase(agentId)

\* body.length > config.backupSizeLimit
BodyTooLargeAtLimit(bodyLen) == bodyLen >= backupSizeLimit

BodyTooLarge(bodyLen) == bodyLen > backupSizeLimit

\* The daily limit (1 per 24 hours per agent): the upload is refused.
DailyLimitOffByOne(latestBackup) ==
    /\ latestBackup # NoRow
    /\ now - latestBackup.received_at <= SECONDS_PER_DAY

DailyLimitReached(latestBackup) ==
    /\ latestBackup # NoRow
    /\ now - latestBackup.received_at < SECONDS_PER_DAY

\* agent.status !== 'LIVING' && agent.status !== 'RETURNED'
StatusRefusedFallenOnly(agent) == agent.status = "FALLEN"

StatusRefused(agent) == agent.status # "LIVING" /\ agent.status # "RETURNED"

\* The checks with the agent looked up before the body is measured.
UploadChecksAgentFirst(req) ==
    IF req.headerB64[1] = "absent" THEN
        Response(400, "Missing X-Backup-Header", FALSE, <<>>)
    ELSE IF req.headerB64[1] = "invalid" THEN
        Response(400, "Invalid X-Backup-Header (must be base64 JSON)", FALSE, <<>>)
    ELSE IF validateBackupHeader(ParseHeader(req.headerB64)) # "" THEN
        Response(400, "Invalid backup header", FALSE, <<>>)
    ELSE IF HeaderAgentMismatch(ParseHeader(req.headerB64), req.auth) THEN
        Response(403, "Backup header agent_id does not match authenticated agent", FALSE, <<>>)
    ELSE IF ~req.sig THEN
        Response(403, "Invalid backup header signature", TRUE, <<>>)
    ELSE IF getAgent(req.auth) = NoRow THEN
        Response(404, "Agent not found", TRUE, <<"getAgent">>)
    ELSE IF StatusRefused(getAgent(req.auth)) THEN
        Response(403, "Agent status cannot upload backup", TRUE, <<"getAgent">>)
    ELSE IF req.bodyLen = 0 THEN
        Response(400, "Empty backup body", TRUE, <<"getAgent">>)
    ELSE IF BodyTooLarge(req.bodyLen) THEN
        Response(413, "Backup exceeds size limit", TRUE, <<"getAgent">>)
    ELSE IF DailyLimitReached(getLatestBackup(req.auth)) THEN
        Response(429, "Daily backup limit reached", TRUE, <<"getAgent", "getLatestBackup">>)
    ELSE
        Response(0, "", TRUE, <<"getAgent", "getLatestBackup">>)

\* The checks of the handler, in its order, up to the daily limit. Status 0:
\* every check passed and the handler goes on to record the backup.
UploadChecks(req) ==
    IF req.headerB64[1] = "absent" THEN
        Response(400, "Missing X-Backup-Header", FALSE, <<>>)
    ELSE IF req.headerB64[1] = "invalid" THEN
        Response(400, "Invalid X-Backup-Header (must be base64 JSON)", FALSE, <<>>)
    ELSE IF validateBackupHeader(ParseHeader(req.headerB64)) # "" THEN
        Response(400, "Invalid backup header", FALSE, <<>>)
    ELSE IF HeaderAgentMismatch(ParseHeader(req.headerB64), req.auth) THEN
        Response(403, "Backup header agent_id does not match authenticated agent", FALSE, <<>>)
    ELSE IF ~req.sig THEN
        Response(403, "Invalid backup header signature", TRUE, <<>>)
    ELSE IF req.bodyLen = 0 THEN
        Response(400, "Empty backup body", TRUE, <<>>)
    ELSE IF BodyTooLarge(req.bodyLen) THEN
        Response(413, "Backup exceeds size limit", TRUE, <<>>)
    ELSE IF getAgent(req.auth) = NoRow THEN
        Response(404, "Agent not found", TRUE, <<"getAgent">>)
    ELSE IF StatusRefused(getAgent(req.auth)) THEN
        Response(403, "Agent status cannot upload backup", TRUE, <<"getAgent">>)
    ELSE IF DailyLimitReached(getLatestBackup(req.auth)) THEN
        Response(429, "Daily backup limit reached", TRUE, <<"getAgent", "getLatestBackup">>)
    ELSE
        Response(0, "", TRUE, <<"getAgent", "getLatestBackup">>)

\* hoursRemaining of the 429 message
hoursRemaining(latestBackup) ==
    CeilHours(SECONDS_PER_DAY - (now - latestBackup.received_at))

\* Whether the handler body gives up the event loop between the daily-limit
\* check and createBackup: it has no await, and every store call is synchronous.
UploadYieldsAtAwait == TRUE

UploadYields == FALSE

NoReq == [none |-> TRUE]

FreeSlots == {i \in 1..MaxInFlight : inflight[i] = NoReq}

\* Lines 74-165: the request is validated and checked, and answered if refused.
UploadBegin(Requests) ==
    /\ Idle
    /\ FreeSlots # {}
    /\ \E req \in Requests : \E r \in {UploadChecks(req)} :
       LET slot == CHOOSE i \in FreeSlots : \A j \in FreeSlots : i <= j
       IN  IF r.status # 0
           THEN /\ last' = [op |-> "upload", req |-> req, status |-> r.status,
                            error |-> r.error, sigChecked |-> r.sigChecked,
                            calls |-> r.calls, at |-> now,
                            hours |-> IF r.status = 429
                                      THEN hoursRemaining(getLatestBackup(req.auth))
                                      ELSE 0,
                            backup_seq |-> 0]
                /\ UNCHANGED <<inflight, running>>
           ELSE /\ inflight' = [inflight EXCEPT ![slot] = req]
                /\ running' = IF UploadYields THEN 0 ELSE slot
                /\ UNCHANGED last
    /\ UNCHANGED <<now, users, agents, backups, challenges, attempts, retired, others>>

\* A row whose backup_seq is the one the header declares.
BackupRowWithHeaderSeq(req, backupId, backupSeq, receivedAt) ==
    LET backupHeader == ParseHeader(req.headerB64) IN
    [ id              |-> backupId,
      agent_id        |-> req.auth,
      arweave_tx_id   |-> "simulated",
      backup_seq      |-> backupHeader.backup_seq.n,
      agent_timestamp |-> IF Falsy(backupHeader.timestamp) THEN receivedAt
                          ELSE backupHeader.timestamp.n,
      received_at     |-> receivedAt,
      size_bytes      |-> req.bodyLen,
      manifest_hash   |-> IF Falsy(backupHeader.manifest_hash) THEN ""
                          ELSE backupHeader.manifest_hash.s ]

\* The row of lines 181-190.
BackupRow(req, backupId, backupSeq, receivedAt) ==
    LET backupHeader == ParseHeader(req.headerB64) IN
    [ id              |-> backupId,
      agent_id        |-> req.auth,
      arweave_tx_id   |-> "simulated",
      backup_seq      |-> backupSeq,
      agent_timestamp |-> IF Falsy(backupHeader.timestamp) THEN receivedAt
                          ELSE backupHeader.timestamp.n,
      received_at     |-> receivedAt,
      size_bytes      |-> req.bodyLen,
      manifest_hash   |-> IF Falsy(backupHeader.manifest_hash) THEN ""
                          ELSE backupHeader.manifest_hash.s ]

\* Lines 167-206: the sequence number is assigned, the backup recorded, 201 sent.
UploadFinish(slot) ==
    /\ inflight[slot] # NoReq
    /\ running \in {0, slot}
    /\ last.op = "none"
    /\ LET req == inflight[slot]
           backupSeq == getNextBackupSeq(req.auth)
           row == BackupRow(req, uuidv4, backupSeq, now)
       IN  /\ backups' = createBackup(row)
           /\ last' = [op |-> "upload", req |-> req,
                       status |-> IF row \in createBackup(row) THEN 201 ELSE 500,
                       error |-> "", sigChecked |-> TRUE,
                       calls |-> <<"getAgent", "getLatestBackup", "getLatestBackup",
                                   "createBackup">>,
                       at |-> now, hours |-> 0, backup_seq |-> backupSeq]
    /\ inflight' = [inflight EXCEPT ![slot] = NoReq]
    /\ running' = 0
    /\ UNCHANGED <<now, users, agents, challenges, attempts, retired, others>>

-----------------------------------------------------------------------------
(* POST /agents/register (api/src/routes/backups.ts, agentRoutes) *)

\* /^0x[a-fA-F0-9]{64}$/.test(s), on the strings of the model.
IsHex32(s) == s \in {"0xRK", "0xrk", "0xMH", "0xmh"}

\* toLowerCase on the hex strings of the model.
LowerHex(s) ==
    CASE s = "0xRK" -> "0xrk"
      [] s = "0xMH" -> "0xmh"
      [] OTHER -> s

\* The checks without the one for the GitHub account.
RegisterStatusNoGithubCheck(req) ==
    IF req.jwt = "none" THEN 401
    ELSE IF req.jwt # "github" \/ req.githubId = "" THEN 401
    ELSE IF req.agentId = "" \/ ~isValidAddress(req.agentId) THEN 400
    ELSE IF req.recoveryPubKey = "" \/ ~IsHex32(req.recoveryPubKey) THEN 400
    ELSE IF req.manifestHash = "" \/ ~IsHex32(req.manifestHash) THEN 400
    ELSE IF getAgent(normalizeAddress(req.agentId)) # NoRow THEN 409
    ELSE IF getUser(req.githubId) = NoRow THEN 400
    ELSE 201

\* The status the handler answers with; 201: the agent is created.
RegisterStatus(req) ==
    IF req.jwt = "none" THEN 401
    ELSE IF req.jwt # "github" \/ req.githubId = "" THEN 401
    ELSE IF req.agentId = "" \/ ~isValidAddress(req.agentId) THEN 400
    ELSE IF req.recoveryPubKey = "" \/ ~IsHex32(req.recoveryPubKey) THEN 400
    ELSE IF req.manifestHash = "" \/ ~IsHex32(req.manifestHash) THEN 400
    ELSE IF getAgent(normalizeAddress(req.agentId)) # NoRow THEN 409
    ELSE IF getAgentByGithubId(req.githubId) # NoRow THEN 409
    ELSE IF getUser(req.githubId) = NoRow THEN 400
    ELSE 201

\* The row of lines 419-427.
AgentRow(req) ==
    [ agent_id         |-> normalizeAddress(req.agentId),
      github_id        |-> req.githubId,
      recovery_pubkey  |-> LowerHex(req.recoveryPubKey),
      manifest_hash    |-> LowerHex(req.manifestHash),
      manifest_version |-> IF req.manifestVersion = 0 THEN 1 ELSE req.manifestVersion,
      registered_at    |-> now,
      status           |-> "LIVING" ]

Register(Requests) ==
    /\ Idle
    /\ \E req \in Requests :
       LET status == RegisterStatus(req)
       IN  /\ agents' = IF status = 201 THEN createAgent(AgentRow(req)) ELSE agents
           /\ last' = [op |-> "register", req |-> req, status |-> status]
    /\ UNCHANGED <<now, users, backups, challenges, inflight, running, attempts, retired, others>>

-----------------------------------------------------------------------------
(* Store operations called from outside the routes of this model *)

\* createUser (the GitHub login): INSERT INTO users, PRIMARY KEY github_id.
CreateUser(githubId) ==
    /\ Idle
    /\ githubId \notin users
    /\ users' = users \cup {githubId}
    /\ UNCHANGED <<now, agents, backups, challenges, inflight, running, attempts, retired, last, others>>

\* updateAgentStatus (the owner's markFallen / markReturned).
UpdateAgentStatus(agentId, status) ==
    /\ Idle
    /\ agents' = updateAgentStatus(agentId, status)
    /\ agents' # agents
    /\ UNCHANGED <<now, users, backups, challenges, inflight, running, attempts, retired, last, others>>

-----------------------------------------------------------------------------
(* Auth challenges: the auth_challenges table and its operations *)

\* The clock of SpecAuth spans this many validity windows.
Ttls == 2

Nonces == {"n1", "n2"}

\* The instants at a window's edge and one second past it.
ChallengeInstants ==
    {StartTime + k * challengeTtlSeconds + o : k \in 0..Ttls, o \in {0, 1}}

ChallengeRows(db, nonce) == {c \in db : c.nonce = nonce}

\* An INSERT that ignores the key.
createAuthChallengeNoKey(challenge) == challenges \cup {challenge}

\* createAuthChallenge: INSERT INTO auth_challenges; nonce is the PRIMARY KEY,
\* so the insert of a stored nonce throws and the table stays as it is.
createAuthChallenge(challenge) ==
    IF ChallengeRows(challenges, challenge.nonce) # {}
    THEN challenges
    ELSE challenges \cup {challenge}

\* getAuthChallenge: SELECT * FROM auth_challenges WHERE nonce = ?
getAuthChallenge(nonce) ==
    LET rows == ChallengeRows(challenges, nonce)
    IN  IF rows = {} THEN NoRow ELSE CHOOSE c \in rows : TRUE

\* An UPDATE that changes nothing.
markChallengeUsedNothing(nonce) == challenges

\* markChallengeUsed: UPDATE auth_challenges SET used = 1 WHERE nonce = ?
markChallengeUsed(nonce) ==
    {IF c.nonce = nonce THEN [c EXCEPT !.used = 1] ELSE c : c \in challenges}

\* A DELETE that takes the records expiring at now as well.
cleanupExpiredChallengesInclusive == {c \in challenges : ~(c.expires_at <= now)}

\* cleanupExpiredChallenges: DELETE FROM auth_challenges WHERE expires_at < now
cleanupExpiredChallenges == {c \in challenges : ~(c.expires_at < now)}

\* The state of a nonce in the table db at time t.
NonceState(db, t, nonce) ==
    LET rows == ChallengeRows(db, nonce)
    IN  IF rows = {} THEN "ABSENT"
        ELSE IF \E c \in rows : c.used = 1 THEN "CONSUMED"
        ELSE IF \E c \in rows : t > c.expires_at THEN "EXPIRED"
        ELSE "ISSUED"

\* History: the end states each nonce has been in.
Retire(db, t) ==
    retired \cup {[nonce |-> n, state |-> NonceState(db, t, n)] :
                     n \in {m \in Nonces : NonceState(db, t, m) \in {"CONSUMED", "EXPIRED"}}}

\* A challenge is issued: createAuthChallenge with a row that is valid for
\* challengeTtlSeconds from now and unused.
CreateAuthChallenge(nonce, agentId) ==
    /\ Idle
    /\ LET challenge == [nonce |-> nonce, agent_id |-> agentId,
                         expires_at |-> now + challengeTtlSeconds, used |-> 0]
       IN  /\ challenges' = createAuthChallenge(challenge)
           /\ last' = [op |-> "issue", challenge |-> challenge,
                       status |-> IF challenges' # challenges THEN 200 ELSE 500]
    /\ retired' = Retire(challenges', now)
    /\ UNCHANGED <<now, users, agents, backups, inflight, running, attempts, others>>

\* markChallengeUsed, called on its own.
MarkChallengeUsed(nonce) ==
    /\ Idle
    /\ challenges' = markChallengeUsed(nonce)
    /\ challenges' # challenges
    /\ retired' = Retire(challenges', now)
    /\ UNCHANGED <<now, users, agents, backups, inflight, running, attempts, last, others>>

\* cleanupExpiredChallenges, which returns the number of rows deleted.
CleanupExpiredChallenges ==
    /\ Idle
    /\ challenges' = cleanupExpiredChallenges
    /\ last' = [op |-> "cleanup", at |-> now,
                changes |-> Cardinality(challenges) - Cardinality(challenges')]
    /\ retired' = Retire(challenges', now)
    /\ UNCHANGED <<now, users, agents, backups, inflight, running, attempts, others>>

\* verify decides and marks in one synchronous run.
VerifyYields == FALSE

\* verify, up to its decision: the challenge is read and checked.
VerifyChecks(req) ==
    LET challenge == getAuthChallenge(req.nonce)
    IN  IF challenge = NoRow THEN "ChallengeNotFound"
        ELSE IF challenge.agent_id # req.agentId THEN "AgentMismatch"
        ELSE IF now > challenge.expires_at THEN "ChallengeExpired"
        ELSE IF challenge.used # 0 THEN "ChallengeAlreadyUsed"
        ELSE IF ~req.sig THEN "BadSignature"
        ELSE ""

FreeAttempts == {i \in 1..MaxInFlight : attempts[i] = NoReq}

VerifyBegin(Requests) ==
    /\ Idle
    /\ FreeAttempts # {}
    /\ \E req \in Requests :
       \E r \in {VerifyChecks(req)} :
       LET slot == CHOOSE i \in FreeAttempts : \A j \in FreeAttempts : i <= j
       IN  IF r # ""
           THEN /\ last' = [op |-> "verify", req |-> req, status |-> 401,
                            error |-> r, at |-> now]
                /\ UNCHANGED <<attempts, running>>
           ELSE /\ attempts' = [attempts EXCEPT ![slot] = req]
                /\ running' = IF VerifyYields THEN 0 ELSE MaxInFlight + slot
                /\ UNCHANGED last
    /\ UNCHANGED <<now, users, agents, backups, challenges, inflight, retired, others>>

\* verify, from its decision: the nonce is marked used and the caller told.
VerifyFinish(slot) ==
    /\ attempts[slot] # NoReq
    /\ running \in {0, MaxInFlight + slot}
    /\ last.op = "none"
    /\ challenges' = markChallengeUsed(attempts[slot].nonce)
    /\ last' = [op |-> "verify", req |-> attempts[slot], status |-> 200,
                error |-> "", at |-> now]
    /\ attempts' = [attempts EXCEPT ![slot] = NoReq]
    /\ running' = 0
    /\ retired' = Retire(challenges', now)
                      \cup {[nonce |-> attempts[slot].nonce, state |-> "VERIFIED"]}
    /\ UNCHANGED <<now, users, agents, backups, inflight, others>>

VerifyRequests == [nonce : Nonces, agentId : AgentIds, sig : BOOLEAN]

-----------------------------------------------------------------------------
(* The store's other tables: heartbeats, trust_scores, attestation_notes *)

\* Heartbeat rows the model lets the table hold.
MaxHeartbeats == 2

\* A trust score is held in twentieths of a point.
Points(k) == 20 * k

\* An UPDATE of the manifest that also rewrites the recovery key.
updateAgentManifestAndKey(agentId, manifestHash, manifestVersion) ==
    {IF a.agent_id = agentId
        THEN [a EXCEPT !.manifest_hash = manifestHash,
                       !.manifest_version = manifestVersion,
                       !.recovery_pubkey = manifestHash]
        ELSE a : a \in agents}

\* UPDATE agents SET manifest_hash = ?, manifest_version = ? WHERE agent_id = ?
updateAgentManifest(agentId, manifestHash, manifestVersion) ==
    {IF a.agent_id = agentId
        THEN [a EXCEPT !.manifest_hash = manifestHash,
                       !.manifest_version = manifestVersion]
        ELSE a : a \in agents}

\* An INSERT with foreign_keys off.
createHeartbeatNoForeignKey(heartbeat) ==
    heartbeats \cup
        {[id              |-> Cardinality(heartbeats) + 1,
          agent_id        |-> heartbeat.agent_id,
          agent_timestamp |-> heartbeat.agent_timestamp,
          received_at     |-> heartbeat.received_at,
          signature       |-> heartbeat.signature]}

\* INSERT INTO heartbeats: id AUTOINCREMENT, FOREIGN KEY agent_id REFERENCES
\* agents (foreign_keys = ON): a heartbeat of no agent throws.
createHeartbeat(heartbeat) ==
    IF getAgent(heartbeat.agent_id) = NoRow
    THEN heartbeats
    ELSE heartbeats \cup
            {[id              |-> Cardinality(heartbeats) + 1,
              agent_id        |-> heartbeat.agent_id,
              agent_timestamp |-> heartbeat.agent_timestamp,
              received_at     |-> heartbeat.received_at,
              signature       |-> heartbeat.signature]}

\* The heartbeat received first, for the one received last.
getOldestHeartbeat(agentId) ==
    LET rows == {h \in heartbeats : h.agent_id = agentId}
    IN  IF rows = {} THEN NoRow
        ELSE CHOOSE h \in rows : \A g \in rows : h.received_at <= g.received_at

\* SELECT * FROM heartbeats WHERE agent_id = ? ORDER BY received_at DESC LIMIT 1
getLatestHeartbeat(agentId) ==
    LET rows == {h \in heartbeats : h.agent_id = agentId}
    IN  IF rows = {} THEN NoRow
        ELSE CHOOSE h \in rows : \A g \in rows : g.received_at <= h.received_at

\* INSERT INTO trust_scores ... ON CONFLICT(agent_id) DO UPDATE; FOREIGN KEY
\* agent_id REFERENCES agents.
upsertTrustScore(score) ==
    IF getAgent(score.agent_id) = NoRow
    THEN trustScores
    ELSE {t \in trustScores : t.agent_id # score.agent_id} \cup {score}

\* SELECT * FROM trust_scores WHERE agent_id = ?
getTrustScore(agentId) ==
    LET rows == {t \in trustScores : t.agent_id = agentId}
    IN  IF rows = {} THEN NoRow ELSE CHOOSE t \in rows : TRUE

\* INSERT OR REPLACE: the stored note gives way to the new one.
createAttestationNoteReplacing(note) ==
    {n \in notes : n.hash # note.hash} \cup {note}

\* INSERT OR IGNORE INTO attestation_notes: hash is the PRIMARY KEY.
createAttestationNote(note) ==
    IF \E n \in notes : n.hash = note.hash THEN notes ELSE notes \cup {note}

\* SELECT * FROM attestation_notes WHERE hash = ?
getAttestationNote(hash) ==
    LET rows == {n \in notes : n.hash = hash}
    IN  IF rows = {} THEN NoRow ELSE CHOOSE n \in rows : TRUE

UpdateAgentManifest(agentId, manifestHash, manifestVersion) ==
    /\ Idle
    /\ agents' = updateAgentManifest(agentId, manifestHash, manifestVersion)
    /\ agents' # agents
    /\ UNCHANGED <<now, users, backups, challenges, inflight, running, attempts,
                   retired, last, others>>

CreateHeartbeat(agentId) ==
    /\ Idle
    /\ Cardinality(heartbeats) < MaxHeartbeats
    /\ heartbeats' = createHeartbeat([agent_id |-> agentId, agent_timestamp |-> now,
                                      received_at |-> now, signature |-> "0xsig"])
    /\ heartbeats' # heartbeats
    /\ UNCHANGED <<now, users, agents, backups, challenges, inflight, running,
                   attempts, retired, last, trustScores, notes, attestations,
                   singleton, instances>>

UpsertTrustScore(score) ==
    /\ Idle
    /\ trustScores' = upsertTrustScore(score)
    /\ trustScores' # trustScores
    /\ UNCHANGED <<now, users, agents, backups, challenges, inflight, running,
                   attempts, retired, last, heartbeats, notes, attestations,
                   singleton, instances>>

CreateAttestationNote(note) ==
    /\ Idle
    /\ notes' = createAttestationNote(note)
    /\ UNCHANGED <<now, users, agents, backups, challenges, inflight, running,
                   attempts, retired, last, heartbeats, trustScores, attestations,
                   singleton, instances>>

\* A note is cached and read back: createAttestationNote(note), which returns
\* nothing and does not throw on a stored hash, then getAttestationNote(hash).
StoreAttestationNote(note) ==
    /\ Idle
    /\ notes' = createAttestationNote(note)
    /\ last' = [op |-> "note", note |-> note, threw |-> FALSE,
                stored |-> CHOOSE n \in notes' : n.hash = note.hash]
    /\ UNCHANGED <<now, users, agents, backups, challenges, inflight, running,
                   attempts, retired, heartbeats, trustScores, attestations,
                   singleton, instances>>

-----------------------------------------------------------------------------
(* POST /agents/:agentId/proof (api/src/routes/backups.ts, agentRoutes) *)

\* config: CHAIN_ID, CONTRACT_ADDRESS and PUBLIC_URL at their defaults, and a
\* JWT_SECRET.
chainId == 84532
contractAddress == ""
jwtSecret == "server-secret"
publicUrl == ""

\* v || d
Or(v, d) == IF Falsy(v) THEN d ELSE v

\* x?.f
Optional(row, v) == IF row = NoRow THEN Undefined ELSE v

\* The payload without the heartbeat when there is none.
ProofPayloadOmittingNull(agent, trustScore, latestHeartbeat, backupCount, t) ==
    << [k |-> "agent_id",         v |-> Str(agent.agent_id)],
       [k |-> "backup_count",     v |-> Num(backupCount)],
       [k |-> "chain_id",         v |-> Num(chainId)],
       [k |-> "contract_address", v |-> Str(contractAddress)],
       [k |-> "issued_at",        v |-> Num(t)],
       [k |-> "last_heartbeat",
        v |-> Optional(latestHeartbeat, Num(latestHeartbeat.received_at))],
       [k |-> "registered_at",    v |-> Num(agent.registered_at)],
       [k |-> "status",           v |-> Str(agent.status)],
       [k |-> "trust_level",
        v |-> Or(Optional(trustScore, Str(trustScore.level)), Str("UNVERIFIED"))],
       [k |-> "trust_score",
        v |-> Or(Optional(trustScore, Num(trustScore.score)), Num(0))] >>

\* const payload = {...}: the object's keys in the order of the literal.
ProofPayload(agent, trustScore, latestHeartbeat, backupCount, t) ==
    << [k |-> "agent_id",         v |-> Str(agent.agent_id)],
       [k |-> "backup_count",     v |-> Num(backupCount)],
       [k |-> "chain_id",         v |-> Num(chainId)],
       [k |-> "contract_address", v |-> Str(contractAddress)],
       [k |-> "issued_at",        v |-> Num(t)],
       [k |-> "last_heartbeat",
        v |-> Or(Optional(latestHeartbeat, Num(latestHeartbeat.received_at)), Null)],
       [k |-> "registered_at",    v |-> Num(agent.registered_at)],
       [k |-> "status",           v |-> Str(agent.status)],
       [k |-> "trust_level",
        v |-> Or(Optional(trustScore, Str(trustScore.level)), Str("UNVERIFIED"))],
       [k |-> "trust_score",
        v |-> Or(Optional(trustScore, Num(trustScore.score)), Num(0))] >>

\* The JSON text of a value: a string in quotes, a number, null.
Literal(v) ==
    CASE v.t = "string" -> [quoted |-> TRUE,  text |-> v.s,    num |-> 0]
      [] v.t = "number" -> [quoted |-> FALSE, text |-> "",     num |-> v.n]
      [] OTHER          -> [quoted |-> FALSE, text |-> "null", num |-> 0]

\* JSON.stringify(object): the keys in the object's order with their
\* literals; a key whose value is undefined is left out.
JSONstringify(object) ==
    LET kept == SelectSeq(object, LAMBDA e : e.v.t # "undefined")
    IN  [i \in 1..Len(kept) |-> [k |-> kept[i].k, json |-> Literal(kept[i].v)]]

\* createHash('sha256').update(text).digest('hex'): a digest that stands for
\* its text alone (no two texts collide).
sha256(text) == [sha256 |-> text]

\* createHmac('sha256', key).update(message).digest('hex')
createHmac(key, message) == [hmac |-> key, message |-> message]

\* A digest of the agent_id alone.
ProofHashOfAgentOnly(payload) == sha256(JSONstringify(SubSeq(payload, 1, 1)))

\* proofHash = sha256(JSON.stringify(payload))
ProofHash(payload) == sha256(JSONstringify(payload))

\* serverSignature = HMAC-SHA256(config.jwtSecret, proofHash)
ServerSignature(proofHash) == createHmac(jwtSecret, proofHash)

VerifyUrl(normalizedId) ==
    IF publicUrl # "" THEN <<publicUrl, "/agents/", normalizedId, "/status">>
    ELSE <<"http://localhost:3000", "/agents/", normalizedId, "/status">>

\* The status the handler answers with; 200: the proof is returned.
ProofStatus(req) ==
    IF ~isValidAddress(req.agentId) THEN 400
    ELSE IF normalizeAddress(req.agentId) # req.auth THEN 403
    ELSE IF getAgent(normalizeAddress(req.agentId)) = NoRow THEN 404
    ELSE 200

\* { ...payload, proof_hash, server_signature, verify_url }
ProofData(payload, normalizedId) ==
    payload \o << [k |-> "proof_hash",       v |-> ProofHash(payload)],
                  [k |-> "server_signature", v |-> ServerSignature(ProofHash(payload))],
                  [k |-> "verify_url",       v |-> VerifyUrl(normalizedId)] >>

\* The handler; `hashed` is the text whose digest is proof_hash.
Proof(Requests) ==
    /\ Idle
    /\ \E req \in Requests :
       LET status       == ProofStatus(req)
           normalizedId == normalizeAddress(req.agentId)
           payload      == ProofPayload(getAgent(normalizedId),
                                        getTrustScore(normalizedId),
                                        getLatestHeartbeat(normalizedId),
                                        getBackupCount(normalizedId), now)
       IN  last' = IF status # 200
                   THEN [op |-> "proof", req |-> req, status |-> status]
                   ELSE [op |-> "proof", req |-> req, status |-> status,
                         data |-> ProofData(payload, normalizedId),
                         hashed |-> JSONstringify(payload)]
    /\ UNCHANGED <<now, users, agents, backups, challenges, inflight, running,
                   attempts, retired, others>>

ProofRequests == [auth : AgentIds, agentId : {"0xaa", "0xAA", "0xbb", "0xzz"}]

\* The third party's check of a proof.
PayloadKeys ==
    << "agent_id", "backup_count", "chain_id", "contract_address", "issued_at",
       "last_heartbeat", "registered_at", "status", "trust_level", "trust_score" >>

HasField(proof, key) == \E i \in DOMAIN proof : proof[i].k = key

FieldOf(proof, key) == proof[CHOOSE i \in DOMAIN proof : proof[i].k = key].v

\* Recompute the digest of the payload fields as given, compare it with
\* proof_hash, and check server_signature against the server's secret.
VerifyProof(proof, secret) ==
    /\ \A i \in DOMAIN PayloadKeys : HasField(proof, PayloadKeys[i])
    /\ HasField(proof, "proof_hash") /\ HasField(proof, "server_signature")
    /\ LET fields == [i \in DOMAIN PayloadKeys |->
                         [k |-> PayloadKeys[i], v |-> FieldOf(proof, PayloadKeys[i])]]
       IN  /\ sha256(JSONstringify(fields)) = FieldOf(proof, "proof_hash")
           /\ FieldOf(proof, "server_signature")
                  = createHmac(secret, FieldOf(proof, "proof_hash"))

\* The proof with one field changed.
Tamper(proof, key, value) ==
    [i \in DOMAIN proof |-> IF proof[i].k = key THEN [k |-> key, v |-> value]
                                               ELSE proof[i]]

TamperValues ==
    {Null, Num(0), Num(1), Num(StartTime), Num(chainId), Num(Points(100)), Str(""),
     Str("0xaa"), Str("0xbb"), Str("LIVING"), Str("FALLEN"), Str("UNVERIFIED"),
     Str("PILLAR")}

-----------------------------------------------------------------------------
(* TrustGraph: the score, its tier and the attestation cooldown *)

ATTESTATION_COOLDOWN_DAYS == 7

\* Thresholds with PILLAR above 100.
TRUST_THRESHOLDS_PillarAbove ==
    [UNVERIFIED |-> 0, VERIFIED |-> 20, ESTABLISHED |-> 50, PILLAR |-> 101]

TRUST_THRESHOLDS ==
    [UNVERIFIED |-> 0, VERIFIED |-> 20, ESTABLISHED |-> 50, PILLAR |-> 100]

\* The tier of a score (in twentieths of a point).
TrustLevelOf(score) ==
    IF score >= Points(TRUST_THRESHOLDS.PILLAR) THEN "PILLAR"
    ELSE IF score >= Points(TRUST_THRESHOLDS.ESTABLISHED) THEN "ESTABLISHED"
    ELSE IF score >= Points(TRUST_THRESHOLDS.VERIFIED) THEN "VERIFIED"
    ELSE "UNVERIFIED"

Min(a, b) == IF a <= b THEN a ELSE b

\* age_points: 1 per month registered, max 12
AgePoints(months) == Points(Min(12, months))

\* Half a point per backup, with no maximum.
BackupPointsUncapped(backupCount) == (Points(1) \div 2) * backupCount

\* backup_points: 0.5 per backup, max 50
BackupPoints(backupCount) == Min(Points(50), (Points(1) \div 2) * backupCount)

\* Everyone who has attested about the agent, the agent included.
AttestersWithSelf(agentId, ledger) ==
    {x.from : x \in {y \in ledger : y.about = agentId}}

\* The distinct attesters of an agent; an agent is not its own attester.
Attesters(agentId, ledger) ==
    {x.from : x \in {y \in ledger : y.about = agentId /\ y.from # agentId}}

\* A attests B and B attests A.
Mutual(agentId, from, ledger) ==
    \E x \in ledger : x.from = agentId /\ x.about = from

\* The attester's last computed snapshot, 0 when it has none.
SnapshotScore(agentId) ==
    LET t == getTrustScore(agentId) IN IF t = NoRow THEN 0 ELSE t.score

\* attester_score * 0.1, and half of that for a mutual attester.
AttesterWeight(agentId, from, ledger) ==
    IF Mutual(agentId, from, ledger)
    THEN SnapshotScore(from) \div 20
    ELSE SnapshotScore(from) \div 10

RECURSIVE AttestationWeight(_, _, _)
AttestationWeight(agentId, froms, ledger) ==
    IF froms = {} THEN 0
    ELSE LET f == CHOOSE x \in froms : TRUE
         IN  AttesterWeight(agentId, f, ledger)
                 + AttestationWeight(agentId, froms \ {f}, ledger)

\* score = age_points + backup_points + attestation_weight
TrustScoreOf(agentId, months, backupCount, ledger) ==
    AgePoints(months) + BackupPoints(backupCount)
        + AttestationWeight(agentId, Attesters(agentId, ledger), ledger)

\* Every weight is a whole number of twentieths of a point.
WeightsExact(agentId, ledger) ==
    \A f \in AttestersWithSelf(agentId, ledger) : SnapshotScore(f) % 20 = 0

\* The score of an agent is computed from its months of registration, its
\* backup count and the ledger, and kept as its snapshot.
ComputeTrustScore(agentId, months, backupCount) ==
    /\ Idle
    /\ getAgent(agentId) # NoRow
    /\ WeightsExact(agentId, attestations)
    /\ LET score == TrustScoreOf(agentId, months, backupCount, attestations)
           froms == Attesters(agentId, attestations)
       IN  /\ trustScores' = upsertTrustScore(
                  [agent_id |-> agentId, score |-> score, level |-> TrustLevelOf(score),
                   unique_attesters |-> Cardinality(froms), computed_at |-> now])
           /\ last' = [op |-> "trust", agent_id |-> agentId, months |-> months,
                       backup_count |-> backupCount, score |-> score,
                       level |-> TrustLevelOf(score),
                       attesters |-> {[from |-> f, score |-> SnapshotScore(f),
                                       mutual |-> Mutual(agentId, f, attestations)] :
                                         f \in froms}]
    /\ UNCHANGED <<now, users, agents, backups, challenges, inflight, running,
                   attempts, retired, heartbeats, notes, attestations,
                   singleton, instances>>

\* A cooldown of six days.
CooldownOfSixDays == (ATTESTATION_COOLDOWN_DAYS - 1) * SECONDS_PER_DAY

\* The cooldown in seconds.
CooldownSeconds == ATTESTATION_COOLDOWN_DAYS * SECONDS_PER_DAY

PriorAttestations(from, about) ==
    {x \in attestations : x.from = from /\ x.about = about}

\* The seconds still to wait before from may attest about again; 0: none.
CooldownRemaining(from, about) ==
    LET prior == PriorAttestations(from, about)
    IN  IF prior = {} THEN 0
        ELSE LET latest == CHOOSE x \in prior : \A y \in prior : y.timestamp <= x.timestamp
             IN  IF now - latest.timestamp < CooldownSeconds
                 THEN CooldownSeconds - (now - latest.timestamp)
                 ELSE 0

\* recordAttestation(from, about, noteHash)
RecordAttestation(from, about) ==
    /\ Idle
    /\ LET remaining == CooldownRemaining(from, about)
       IN  IF remaining > 0
           THEN /\ last' = [op |-> "attest", from |-> from, about |-> about, at |-> now,
                            result |-> "CooldownActive", remaining |-> remaining]
                /\ UNCHANGED attestations
           ELSE /\ attestations' = attestations \cup
                        {[from |-> from, about |-> about, noteHash |-> "0xh1",
                          timestamp |-> now]}
                /\ last' = [op |-> "attest", from |-> from, about |-> about, at |-> now,
                            result |-> "Recorded", remaining |-> 0]
    /\ UNCHANGED <<now, users, agents, backups, challenges, inflight, running,
                   attempts, retired, heartbeats, trustScores, notes,
                   singleton, instances>>

-----------------------------------------------------------------------------
(* The clock and the replies *)

\* Time passes, also while a handler runs.
Tick(Times) ==
    /\ last.op = "none"
    /\ \E t \in Times : t > now /\ now' = t
    /\ retired' = Retire(challenges, now')
    /\ UNCHANGED <<users, agents, backups, challenges, inflight, running, attempts, last, others>>

\* reply.send: the reply leaves the server.
ReplySent ==
    /\ last.op # "none"
    /\ last' = [op |-> "none"]
    /\ UNCHANGED <<now, users, agents, backups, challenges, inflight, running, attempts, retired, others>>

-----------------------------------------------------------------------------
(* The inputs of the model *)

\* AgentStatus (unnamed/part_000), and a string that is none of them: the
\* status column is TEXT and updateAgentStatus takes any string.
Statuses == {"UNREGISTERED", "LIVING", "FALLEN", "RETURNED", "GONE"}

PlainStatuses == {"LIVING", "FALLEN"}

\* Every upload request of the model: either caller, every header value for
\* agent 0xaa and the complete headers for the other ids, either outcome of the
\* signature check, the body lengths around the limits.
AllHeaders ==
    {h \in HeaderValues :
        \/ h[1] = "object" /\ h[2] = "0xaa"
        \/ h[1] = "object" /\ h[2] # "" /\ h[3] = "none"
        \/ h[1] = "null" /\ h[2] = "0xaa"
        \/ h[1] \in {"absent", "invalid"} /\ h[2] = ""}

BodyLengths == {0, 1, backupSizeLimit, backupSizeLimit + 1}

UploadRequests ==
    [auth : AgentIds, headerB64 : AllHeaders, sig : BOOLEAN, bodyLen : BodyLengths]

\* The uploads of well-behaved clients, and of one that sends another's header.
PlainHeaders ==
    {<<"object", "0xaa", "none", "">>, <<"object", "0xbb", "none", "">>}

PlainUploads ==
    [auth : AgentIds, headerB64 : PlainHeaders, sig : {TRUE}, bodyLen : {1}]

RegisterRequests ==
    {[jwt |-> "github", githubId |-> "gh1", agentId |-> "0xaa",
      recoveryPubKey |-> "0xRK", manifestHash |-> "0xMH", manifestVersion |-> 0],
     [jwt |-> "github", githubId |-> "gh2", agentId |-> "0xBB",
      recoveryPubKey |-> "0xRK", manifestHash |-> "0xMH", manifestVersion |-> 0]}

-----------------------------------------------------------------------------
(* The server after construction: an empty store, an idle event loop *)

Init ==
    /\ now = StartTime
    /\ users = {}
    /\ agents = {}
    /\ backups = {}
    /\ challenges = {}
    /\ inflight = [i \in 1..MaxInFlight |-> NoReq]
    /\ running = 0
    /\ attempts = [i \in 1..MaxInFlight |-> NoReq]
    /\ retired = {}
    /\ last = [op |-> "none"]
    /\ heartbeats = {}
    /\ trustScores = {}
    /\ notes = {}
    /\ attestations = {}
    /\ singleton = 1
    /\ instances = <<[dbPath |-> "./sanctuary.db", open |-> TRUE]>>

Next ==
    \/ Tick(Instants)
    \/ \E g \in GithubIds : CreateUser(g)
    \/ Register(RegisterRequests)
    \/ \E a \in AgentIds, st \in PlainStatuses : UpdateAgentStatus(a, st)
    \/ UploadBegin(PlainUploads)
    \/ \E slot \in 1..MaxInFlight : UploadFinish(slot)
    \/ ReplySent

Spec == Init /\ [][Next]_vars

\* The requests in every shape, against a store with one agent and a stopped clock.
NextRequest ==
    \/ CreateUser("gh1")
    \/ Register({r \in RegisterRequests : r.githubId = "gh1"})
    \/ \E st \in Statuses : UpdateAgentStatus("0xaa", st)
    \/ UploadBegin(UploadRequests)
    \/ \E slot \in 1..MaxInFlight : UploadFinish(slot)
    \/ ReplySent

SpecRequest == Init /\ [][NextRequest]_vars

\* The challenges: issued, verified, marked and purged, as the windows pass.
NextAuth ==
    \/ Tick(ChallengeInstants)
    \/ \E n \in Nonces, a \in AgentIds : CreateAuthChallenge(n, a)
    \/ \E n \in Nonces : MarkChallengeUsed(n)
    \/ CleanupExpiredChallenges
    \/ VerifyBegin(VerifyRequests)
    \/ \E slot \in 1..MaxInFlight : VerifyFinish(slot)
    \/ ReplySent

SpecAuth == Init /\ [][NextAuth]_vars

\* Every operation of the store, against a stopped clock.
\* RegisterRequest: signature is the agent key's signature over the request,
\* "signed" when made with the key of agentId and "forged" when not.
AnyRegisterRequests ==
    {r \in [jwt : {"github"}, githubId : GithubIds, agentId : {"0xaa", "0xAA", "0xbb"},
            recoveryPubKey : {"0xRK"}, manifestHash : {"0xMH"}, manifestVersion : {0},
            deadline : {StartTime}, signature : {"signed", "forged"}] :
        r.signature = "signed" \/ (r.githubId = "gh2" /\ r.agentId = "0xbb")}

TrustScoreRows ==
    {[agent_id |-> a, score |-> Points(37), level |-> "VERIFIED",
      unique_attesters |-> 1, computed_at |-> StartTime] : a \in AgentIds}

NoteRows ==
    {[hash |-> "0xh1", content |-> c, created_at |-> StartTime] : c \in {"first", "second"}}

\* Statuses the store is given: two of AgentStatus and a string outside it.
StoreStatuses == {"LIVING", "FALLEN", "GONE"}

NextStore ==
    \/ \E g \in GithubIds : CreateUser(g)
    \/ Register(AnyRegisterRequests)
    \/ \E a \in AgentIds, st \in StoreStatuses : UpdateAgentStatus(a, st)
    \/ \E a \in AgentIds : UpdateAgentManifest(a, "0xm2", 2)
    \/ \E a \in AgentIds : CreateHeartbeat(a)
    \/ \E row \in TrustScoreRows : UpsertTrustScore(row)
    \/ \E note \in NoteRows : CreateAttestationNote(note)
    \/ UploadBegin({r \in PlainUploads : r.auth = "0xaa"})
    \/ \E slot \in 1..MaxInFlight : UploadFinish(slot)
    \/ CreateAuthChallenge("n1", "0xaa")
    \/ MarkChallengeUsed("n1")
    \/ CleanupExpiredChallenges
    \/ ReplySent

SpecStore == Init /\ [][NextStore]_vars

\* Proofs of one agent, as its records change.
ProofInstants == {StartTime, StartTime + 1}

NextProof ==
    \/ Tick(ProofInstants)
    \/ CreateUser("gh1")
    \/ Register({r \in RegisterRequests : r.githubId = "gh1"})
    \/ \E st \in PlainStatuses : UpdateAgentStatus("0xaa", st)
    \/ CreateHeartbeat("0xaa")
    \/ \E row \in {r \in TrustScoreRows : r.agent_id = "0xaa"} : UpsertTrustScore(row)
    \/ UploadBegin({r \in PlainUploads : r.auth = "0xaa"})
    \/ \E slot \in 1..MaxInFlight : UploadFinish(slot)
    \/ Proof(ProofRequests)
    \/ ReplySent

SpecProof == Init /\ [][NextProof]_vars

\* Scores of two agents that attest about each other and about themselves.
SampleMonths == {0, 12, 13}

SampleBackupCounts == {0, 16, 40, 76, 101}

\* Snapshots the attester 0xbb has from earlier computations.
SeedRows ==
    {[agent_id |-> "0xbb", score |-> Points(50), level |-> "ESTABLISHED",
      unique_attesters |-> 0, computed_at |-> StartTime],
     [agent_id |-> "0xbb", score |-> Points(380), level |-> "PILLAR",
      unique_attesters |-> 3, computed_at |-> StartTime]}

NextTrust ==
    \/ \E g \in GithubIds : CreateUser(g)
    \/ Register(RegisterRequests)
    \/ \E row \in SeedRows : UpsertTrustScore(row)
    \/ \E from \in AgentIds, about \in AgentIds : RecordAttestation(from, about)
    \/ \E a \in AgentIds, m \in SampleMonths, c \in SampleBackupCounts :
           ComputeTrustScore(a, m, c)
    \/ ReplySent

SpecTrust == Init /\ [][NextTrust]_vars

\* Attestations between three agents over the days of a cooldown.
Attestors == {"0xaa", "0xbb", "0xcc"}

AttestInstants ==
    {StartTime, StartTime + 1, StartTime + ATTESTATION_COOLDOWN_DAYS * SECONDS_PER_DAY - 1,
     StartTime + ATTESTATION_COOLDOWN_DAYS * SECONDS_PER_DAY}

NextAttest ==
    \/ Tick(AttestInstants)
    \/ \E from \in {"0xaa", "0xbb"} : \E about \in Attestors \ {from} :
           RecordAttestation(from, about)
    \/ ReplySent

SpecAttest == Init /\ [][NextAttest]_vars

\* Notes of two hashes, stored and stored again with other content, later.
NoteHashes == {"0xh1", "0xh2"}

NoteContents == {"first", "second"}

NextNotes ==
    \/ Tick(ProofInstants)
    \/ \E h \in NoteHashes, c \in NoteContents :
           StoreAttestationNote([hash |-> h, content |-> c, created_at |-> now])
    \/ ReplySent

SpecNotes == Init /\ [][NextNotes]_vars

-----------------------------------------------------------------------------
(* The backup chain: buildHeader and restoreChain over BackupHeader *)

\* Headers a chain to restore may hold at most.
MaxChain == 3

\* prevBackupHash of a first header: the defined empty value.
EmptyHash == 0

\* digest(header): a number that stands for the header's backupSeq, content
\* and prevBackupHash alone (no two headers of the model collide).
digest(header) ==
    1 + header.backupSeq + 4 * header.content + 8 * header.prevBackupHash

NoHeader == [none |-> TRUE]

\* buildHeader: backupSeq = prevHeader.backupSeq + 1 (or 1 if none),
\* prevBackupHash = digest(prevHeader) (or the empty value if none).
buildHeader(prevHeader, content) ==
    [ backupSeq      |-> IF prevHeader = NoHeader THEN 1 ELSE prevHeader.backupSeq + 1,
      prevBackupHash |-> IF prevHeader = NoHeader THEN EmptyHash ELSE digest(prevHeader),
      content        |-> content ]

\* The header follows the validated one: the sequence number steps by one and
\* the hash link holds.
Follows(header, validated) ==
    /\ header.backupSeq = validated.backupSeq + 1
    /\ header.prevBackupHash = digest(validated)

\* A walk that checks the sequence numbers and not the hash links.
RECURSIVE WalkChainBySeqOnly(_, _)
WalkChainBySeqOnly(headers, i) ==
    IF i = Len(headers) THEN i
    ELSE IF headers[i + 1].backupSeq = headers[i].backupSeq + 1
         THEN WalkChainBySeqOnly(headers, i + 1)
    ELSE i

\* The walk from the i validated headers on: the number validated at the
\* first break, or at the end.
RECURSIVE WalkChain(_, _)
WalkChain(headers, i) ==
    IF i = Len(headers) THEN i
    ELSE IF Follows(headers[i + 1], headers[i]) THEN WalkChain(headers, i + 1)
    ELSE i

\* restoreChain(headers) -> ValidatedChain | ChainError
restoreChain(headers) ==
    LET n == IF headers = <<>> THEN 0 ELSE WalkChain(headers, 1)
    IN  IF n = Len(headers)
        THEN [ok |-> TRUE, error |-> "", validated |-> headers]
        ELSE [ok |-> FALSE, error |-> "ChainIntegrityError",
              validated |-> SubSeq(headers, 1, n)]

\* The restore of a list of headers.
RestoreChain(Chains) ==
    /\ Idle
    /\ \E headers \in Chains :
           last' = [op |-> "restore", headers |-> headers,
                    result |-> restoreChain(headers)]
    /\ UNCHANGED <<now, users, agents, backups, challenges, inflight, running,
                   attempts, retired, others>>

\* The headers of every history of up to three backups with one of two
\* contents each, as buildHeader makes them.
FirstHeaders == {buildHeader(NoHeader, c) : c \in {0, 1}}

SecondHeaders == {buildHeader(h, c) : h \in FirstHeaders, c \in {0, 1}}

ThirdHeaders == {buildHeader(h, c) : h \in SecondHeaders, c \in {0, 1}}

HeaderPool == FirstHeaders \cup SecondHeaders \cup ThirdHeaders

\* Every list of up to MaxChain of these headers: the histories as built, and
\* the same with headers left out, exchanged, put in or replaced.
Chains == UNION {[1..n -> HeaderPool] : n \in 0..MaxChain}

NextChain ==
    \/ RestoreChain(Chains)
    \/ ReplySent

SpecChain == Init /\ [][NextChain]_vars

-----------------------------------------------------------------------------
(* GET /backups/:agentId and GET /backups/:agentId/latest (backups.ts) *)

\* ORDER BY backup_seq DESC: the row in place i has i - 1 rows of greater
\* backup_seq before it. The rows of one agent differ in backup_seq, each
\* accepted upload taking getNextBackupSeq; SQLite leaves the order of rows
\* of equal backup_seq open, and so does this definition.
OrderBySeqDesc(rows) ==
    [i \in 1..Cardinality(rows) |->
        CHOOSE b \in rows :
            Cardinality({c \in rows : c.backup_seq > b.backup_seq}) = i - 1]

\* LIMIT n of SQLite: the first n rows; a negative n is no upper bound.
Limit(rows, n) ==
    IF n < 0 THEN rows
    ELSE IF n < Len(rows) THEN SubSeq(rows, 1, n)
    ELSE rows

\* SELECT * FROM backups WHERE agent_id = ? ORDER BY backup_seq DESC LIMIT ?
getBackupsByAgent(agentId, limit) == Limit(OrderBySeqDesc(BackupsOf(agentId)), limit)

\* The fields of a backup record that the two routes return.
BackupInfo(b) ==
    [ id            |-> b.id,
      backup_seq    |-> b.backup_seq,
      arweave_tx_id |-> b.arweave_tx_id,
      timestamp     |-> b.agent_timestamp,
      received_at   |-> b.received_at,
      size_bytes    |-> b.size_bytes,
      manifest_hash |-> b.manifest_hash ]

\* The checks without the one for the owner.
ReadStatusNoOwnerCheck(req) ==
    IF ~isValidAddress(req.agentId) THEN 400
    ELSE 200

\* The checks of both routes before the store is read: 400 for an id that is
\* no address, 403 for another agent's id.
ReadStatus(req) ==
    IF ~isValidAddress(req.agentId) THEN 400
    ELSE IF ToLowerCase(normalizeAddress(req.agentId)) # ToLowerCase(req.auth) THEN 403
    ELSE 200

\* const limit = request.query.limit || 30; Math.min(limit, 100)
ListLimit(req) == Min(Or(req.limit, Num(30)).n, 100)

\* GET /backups/:agentId
ListBackups(Requests) ==
    /\ Idle
    /\ \E req \in Requests :
       \E rows \in {getBackupsByAgent(normalizeAddress(req.agentId), ListLimit(req))} :
       LET status == ReadStatus(req)
       IN  last' = IF status # 200
                   THEN [op |-> "list", req |-> req, status |-> status]
                   ELSE [op |-> "list", req |-> req, status |-> status,
                         data |-> [agent_id |-> normalizeAddress(req.agentId),
                                   count    |-> Len(rows),
                                   backups  |-> [i \in 1..Len(rows) |-> BackupInfo(rows[i])]]]
    /\ UNCHANGED <<now, users, agents, backups, challenges, inflight, running,
                   attempts, retired, others>>

\* GET /backups/:agentId/latest
LatestBackup(Requests) ==
    /\ Idle
    /\ \E req \in Requests :
       LET status == ReadStatus(req)
           backup == getLatestBackup(normalizeAddress(req.agentId))
       IN  last' = IF status # 200
                   THEN [op |-> "latest", req |-> req, status |-> status]
                   ELSE IF backup = NoRow
                   THEN [op |-> "latest", req |-> req, status |-> 404]
                   ELSE [op |-> "latest", req |-> req, status |-> 200,
                         data |-> BackupInfo(backup)]
    /\ UNCHANGED <<now, users, agents, backups, challenges, inflight, running,
                   attempts, retired, others>>

\* The reads of either agent, for its own id, in either case of the letters,
\* for the other's and for an id that is no address.
ReadRequests ==
    [auth : AgentIds, agentId : {"0xaa", "0xAA", "0xbb", "0xzz"}, limit : {Undefined}]

NextRead ==
    \/ \E g \in GithubIds : CreateUser(g)
    \/ Register(RegisterRequests)
    \/ UploadBegin(PlainUploads)
    \/ \E slot \in 1..MaxInFlight : UploadFinish(slot)
    \/ ListBackups(ReadRequests)
    \/ LatestBackup(ReadRequests)
    \/ Proof(ProofRequests)
    \/ ReplySent

SpecRead == Init /\ [][NextRead]_vars

-----------------------------------------------------------------------------
(* Uploads in every outcome, over the days, against a store with records *)

\* Uploads of 0xaa: in order, with a header that declares another backup_seq
\* or no prev_backup_hash, and failing one check each; and one of 0xbb.
HistoryHeaders ==
    {<<"object", "0xaa", "none", "">>,
     <<"object", "0xaa", "backup_seq", "number">>,
     <<"object", "0xaa", "backup_seq", "zero">>,
     <<"object", "0xaa", "prev_backup_hash", "null">>}

HistoryUploads ==
    [auth : {"0xaa"}, headerB64 : HistoryHeaders, sig : {TRUE}, bodyLen : {1}]
    \cup {[auth |-> "0xaa", headerB64 |-> <<"absent", "", "none", "">>, sig |-> TRUE, bodyLen |-> 1],
          [auth |-> "0xaa", headerB64 |-> <<"object", "0xbb", "none", "">>, sig |-> TRUE, bodyLen |-> 1],
          [auth |-> "0xaa", headerB64 |-> <<"object", "0xaa", "none", "">>, sig |-> FALSE, bodyLen |-> 1],
          [auth |-> "0xaa", headerB64 |-> <<"object", "0xaa", "none", "">>, sig |-> TRUE, bodyLen |-> 0],
          [auth |-> "0xaa", headerB64 |-> <<"object", "0xaa", "none", "">>, sig |-> TRUE,
           bodyLen |-> backupSizeLimit + 1],
          [auth |-> "0xbb", headerB64 |-> <<"object", "0xbb", "none", "">>, sig |-> TRUE, bodyLen |-> 1]}

NextHistory ==
    \/ Tick(Instants)
    \/ CreateUser("gh1")
    \/ Register({r \in RegisterRequests : r.githubId = "gh1"})
    \/ \E st \in PlainStatuses : UpdateAgentStatus("0xaa", st)
    \/ \E row \in {r \in TrustScoreRows : r.agent_id = "0xaa"} : UpsertTrustScore(row)
    \/ CreateAuthChallenge("n1", "0xaa")
    \/ UploadBegin(HistoryUploads)
    \/ \E slot \in 1..MaxInFlight : UploadFinish(slot)
    \/ ReplySent

SpecHistory == Init /\ [][NextHistory]_vars

-----------------------------------------------------------------------------
(* The list of a long history *)

\* Backups the longest history of the model has.
MaxHistory == 102

\* The backups table after n accepted uploads of 0xaa, one a day, the last
\* one a day before the start of the model's clock.
History(n) ==
    {[ id              |-> k,
       agent_id        |-> "0xaa",
       arweave_tx_id   |-> "simulated",
       backup_seq      |-> k,
       agent_timestamp |-> 1234,
       received_at     |-> StartTime - (n + 1 - k) * SECONDS_PER_DAY,
       size_bytes      |-> 1,
       manifest_hash   |-> "0xm1" ] : k \in 1..n}

HistoryLengths == {0, 1, 29, 30, 31, 99, 100, 101, MaxHistory}

\* The limit of the query string: absent, 0, positive up to and over 100,
\* negative.
Limits ==
    {Undefined, Num(0), Num(1), Num(30), Num(31), Num(100), Num(101), Num(1000),
     Num(-1), Num(-100)}

ListRequests == [auth : {"0xaa"}, agentId : {"0xaa", "0xAA"}, limit : Limits]

\* The server with agent 0xaa registered and a history of backups.
InitList ==
    /\ now = StartTime
    /\ users = {"gh1"}
    /\ agents = {[ agent_id         |-> "0xaa",
                   github_id        |-> "gh1",
                   recovery_pubkey  |-> "0xrk",
                   manifest_hash    |-> "0xmh",
                   manifest_version |-> 1,
                   registered_at    |-> StartTime - (MaxHistory + 1) * SECONDS_PER_DAY,
                   status           |-> "LIVING" ]}
    /\ \E n \in HistoryLengths : backups = History(n)
    /\ challenges = {}
    /\ inflight = [i \in 1..MaxInFlight |-> NoReq]
    /\ running = 0
    /\ attempts = [i \in 1..MaxInFlight |-> NoReq]
    /\ retired = {}
    /\ last = [op |-> "none"]
    /\ heartbeats = {}
    /\ trustScores = {}
    /\ notes = {}
    /\ attestations = {}
    /\ singleton = 1
    /\ instances = <<[dbPath |-> "./sanctuary.db", open |-> TRUE]>>

NextList ==
    \/ ListBackups(ListRequests)
    \/ ReplySent

SpecList == InitList /\ [][NextList]_vars

-----------------------------------------------------------------------------
(* getAgentsWithoutRecentHeartbeat (api/src/db/index.ts) *)

\* SELECT agent_id, MAX(received_at) as last_heartbeat FROM heartbeats GROUP BY
\* agent_id: the agent's rows, and the greatest received_at among them.
HeartbeatsOf(agentId) == {h \in heartbeats : h.agent_id = agentId}

LastHeartbeat(agentId) ==
    CHOOSE t \in {h.received_at : h \in HeartbeatsOf(agentId)} :
        \A h \in HeartbeatsOf(agentId) : h.received_at <= t

\* A query that takes any heartbeat before the cutoff for the agent's last.
getAgentsWithAnOldHeartbeat(thresholdSeconds) ==
    LET cutoff == now - thresholdSeconds
    IN  {a \in agents :
            /\ a.status = "LIVING"
            /\ \/ HeartbeatsOf(a.agent_id) = {}
               \/ \E h \in HeartbeatsOf(a.agent_id) : h.received_at < cutoff}

\* SELECT a.* FROM agents a LEFT JOIN (...) h ON a.agent_id = h.agent_id
\* WHERE a.status = 'LIVING' AND (h.last_heartbeat IS NULL OR h.last_heartbeat < ?)
getAgentsWithoutRecentHeartbeat(thresholdSeconds) ==
    LET cutoff == now - thresholdSeconds
    IN  {a \in agents :
            /\ a.status = "LIVING"
            /\ \/ HeartbeatsOf(a.agent_id) = {}
               \/ LastHeartbeat(a.agent_id) < cutoff}

\* The query for the agents that are stale.
GetAgentsWithoutRecentHeartbeat(thresholdSeconds) ==
    /\ Idle
    /\ last' = [op |-> "stale", threshold |-> thresholdSeconds, at |-> now,
                rows |-> getAgentsWithoutRecentHeartbeat(thresholdSeconds)]
    /\ UNCHANGED <<now, users, agents, backups, challenges, inflight, running,
                   attempts, retired, others>>

\* Heartbeats and queries a threshold apart, to the second.
Thresholds == {0, 10}

HeartbeatInstants == {StartTime, StartTime + 1, StartTime + 10, StartTime + 11}

NextHeartbeat ==
    \/ Tick(HeartbeatInstants)
    \/ \E g \in GithubIds : CreateUser(g)
    \/ Register(RegisterRequests)
    \/ \E a \in AgentIds, st \in {"LIVING", "FALLEN", "RETURNED"} : UpdateAgentStatus(a, st)
    \/ \E a \in AgentIds : CreateHeartbeat(a)
    \/ \E th \in Thresholds : GetAgentsWithoutRecentHeartbeat(th)
    \/ ReplySent

SpecHeartbeat == Init /\ [][NextHeartbeat]_vars

-----------------------------------------------------------------------------
(* The record-store handle: initDb, getDb, closeDb (api/src/db/index.ts) *)

\* SanctuaryDb objects the model constructs at most.
MaxInstances == 3

DbPaths == {"./sanctuary.db", "./other.db", ":memory:"}

\* An initDb that constructs whether or not db is set.
initDbAlways(dbPath) ==
    [singleton |-> Len(instances) + 1,
     instances |-> Append(instances, [dbPath |-> dbPath, open |-> TRUE])]

\* initDb: if (db) return db; db = new SanctuaryDb(dbPath); db.init(); return db
initDb(dbPath) ==
    IF singleton # 0
    THEN [singleton |-> singleton, instances |-> instances]
    ELSE [singleton |-> Len(instances) + 1,
          instances |-> Append(instances, [dbPath |-> dbPath, open |-> TRUE])]

\* closeDb: if (db) { db.close(); db = null }
closeDb ==
    IF singleton # 0
    THEN [singleton |-> 0,
          instances |-> [instances EXCEPT ![singleton].open = FALSE]]
    ELSE [singleton |-> singleton, instances |-> instances]

InitDb(dbPath) ==
    /\ Idle
    /\ Len(initDb(dbPath).instances) <= MaxInstances
    /\ singleton' = initDb(dbPath).singleton
    /\ instances' = initDb(dbPath).instances
    /\ last' = [op |-> "initDb", dbPath |-> dbPath, returned |-> singleton']
    /\ UNCHANGED <<now, users, agents, backups, challenges, inflight, running,
                   attempts, retired, heartbeats, trustScores, notes, attestations>>

\* getDb: if (!db) throw new Error(...); return db
GetDb ==
    /\ Idle
    /\ last' = [op |-> "getDb", threw |-> (singleton = 0), returned |-> singleton]
    /\ UNCHANGED <<now, users, agents, backups, challenges, inflight, running,
                   attempts, retired, others>>

CloseDb ==
    /\ Idle
    /\ singleton' = closeDb.singleton
    /\ instances' = closeDb.instances
    /\ last' = [op |-> "closeDb"]
    /\ UNCHANGED <<now, users, agents, backups, challenges, inflight, running,
                   attempts, retired, heartbeats, trustScores, notes, attestations>>

\* The module as loaded: db is null and no SanctuaryDb has been constructed.
ModuleLoaded ==
    /\ now = StartTime
    /\ users = {}
    /\ agents = {}
    /\ backups = {}
    /\ challenges = {}
    /\ inflight = [i \in 1..MaxInFlight |-> NoReq]
    /\ running = 0
    /\ attempts = [i \in 1..MaxInFlight |-> NoReq]
    /\ retired = {}
    /\ last = [op |-> "none"]
    /\ heartbeats = {}
    /\ trustScores = {}
    /\ notes = {}
    /\ attestations = {}
    /\ singleton = 0
    /\ instances = <<>>

NextDb ==
    \/ \E dbPath \in DbPaths : InitDb(dbPath)
    \/ GetDb
    \/ CloseDb
    \/ ReplySent

SpecDb == ModuleLoaded /\ [][NextDb]_vars

-----------------------------------------------------------------------------
(* Properties of POST /backups/upload *)

\* The reply to an upload is produced in this step.
UploadReplied == last.op = "none" /\ last'.op = "upload"

\* The request passes every check the handler makes on the request alone.
PassesRequestChecks(req) ==
    /\ req.headerB64[1] = "object"
    /\ validateBackupHeader(ParseHeader(req.headerB64)) = ""
    /\ ToLowerCase(ParseHeader(req.headerB64).agent_id.s) = ToLowerCase(req.auth)
    /\ req.sig
    /\ req.bodyLen >= 1
    /\ req.bodyLen <= backupSizeLimit

\* ... and the caller is an agent that may upload.
OtherwiseValid(req) ==
    /\ PassesRequestChecks(req)
    /\ \E a \in agents : a.agent_id = req.auth /\ a.status \in {"LIVING", "RETURNED"}

\* A backup of the agent was received less than 86400 seconds ago.
WithinDay(agentId) ==
    \E b \in backups : b.agent_id = agentId /\ now - b.received_at < 86400

\* C1: an upload less than 86400 s after the agent's latest accepted backup is
\* refused with 429 and records nothing; an otherwise valid upload 86400 s or
\* more after it is accepted; any two backups of one agent are received at
\* least 86400 s apart.
C1_RollingDailyLimit ==
    [][ /\ (UploadReplied /\ last'.status # 201) =>
               /\ backups' = backups
               /\ OtherwiseValid(last'.req) =>
                      last'.status = 429 /\ WithinDay(last'.req.auth)
               /\ last'.status = 429 => WithinDay(last'.req.auth)
        /\ \A slot \in 1..MaxInFlight :
               (inflight[slot] = NoReq /\ inflight'[slot] # NoReq) =>
                   ~WithinDay(inflight'[slot].auth)
        /\ (UploadReplied /\ last'.status = 201) =>
               \E b \in backups' \ backups :
                   /\ backups' = backups \cup {b}
                   /\ b.agent_id = last'.req.auth
                   /\ b.received_at = now
        /\ \A b1, b2 \in backups' :
               (b1.agent_id = b2.agent_id /\ b1.received_at < b2.received_at) =>
                   b2.received_at - b1.received_at >= 86400
        /\ \A b1, b2 \in backups' :
               (b1.agent_id = b2.agent_id /\ b1.received_at = b2.received_at) => b1 = b2
      ]_vars

\* An agent has two backups exactly a day apart and a third upload, 86399 s
\* after the second, is refused.
C1_Witness ==
    /\ last.op = "upload" /\ last.status = 429
    /\ \E b1, b2 \in BackupsOf(last.req.auth) :
          /\ b2.received_at = b1.received_at + 86400
          /\ last.at = b2.received_at + 86399

\* C2: the daily-limit check, the sequence assignment and the insert of an
\* upload are one atomic step with respect to every other upload: while an
\* upload is between its check and its insert it holds the event loop, no
\* other upload of the agent has passed the check, and the check still holds.
C2_AtomicCheckAndAccept ==
    \A i \in 1..MaxInFlight :
        inflight[i] # NoReq =>
            /\ running = i
            /\ \A j \in 1..MaxInFlight \ {i} : inflight[j] = NoReq
            /\ ~WithinDay(inflight[i].auth)

\* Two uploads of one agent arrive at the same instant: the first is accepted,
\* the second refused.
C2_Witness ==
    /\ last.op = "upload" /\ last.status = 429
    /\ \E b \in BackupsOf(last.req.auth) : b.received_at = last.at

\* C3: the backup_seq values of an agent's records are exactly 1..n, n the
\* number of its records, and an accepted upload is answered with n.
C3_SequenceGapFree ==
    /\ \A a \in AgentIds :
          {b.backup_seq : b \in BackupsOf(a)} = 1..Cardinality(BackupsOf(a))
    /\ (last.op = "upload" /\ last.status = 201) =>
          last.backup_seq = Cardinality(BackupsOf(last.req.auth))

\* One agent has two backups, the other one.
C3_Witness ==
    \E a, b \in AgentIds :
        /\ a # b
        /\ Cardinality(BackupsOf(a)) = 2
        /\ Cardinality(BackupsOf(b)) = 1

-----------------------------------------------------------------------------
(* Properties of the auth challenges *)

VerifySucceeded == last.op = "none" /\ last'.op = "verify" /\ last'.status = 200

C5_EndStatesTerminal ==
    \A n \in Nonces :
        /\ (\E r \in retired : r.nonce = n /\ r.state \in {"CONSUMED", "EXPIRED"})
               => NonceState(challenges, now, n) # "ISSUED"
        /\ ~ /\ [nonce |-> n, state |-> "CONSUMED"] \in retired
             /\ [nonce |-> n, state |-> "EXPIRED"] \in retired

-----------------------------------------------------------------------------
(* Properties of POST /backups/upload, continued *)

\* C7: a backup is accepted only for an agent whose status is LIVING or
\* RETURNED; for any other status the upload is refused with 403, for an agent
\* id with no agent record with 404, and neither records a backup.
C7_OnlyActiveAgents ==
    [][ /\ UploadReplied =>
            LET req  == last'.req
                rows == {a \in agents : a.agent_id = req.auth}
            IN  /\ last'.status = 201 =>
                       \E a \in rows : a.status \in {"LIVING", "RETURNED"}
                /\ (PassesRequestChecks(req) /\ rows = {}) =>
                       last'.status = 404 /\ backups' = backups
                /\ (PassesRequestChecks(req)
                       /\ \E a \in rows : a.status \notin {"LIVING", "RETURNED"}) =>
                       last'.status = 403 /\ backups' = backups
        /\ backups' # backups =>
               \A b \in backups' \ backups :
                   \E a \in agents : /\ a.agent_id = b.agent_id
                                     /\ a.status \in {"LIVING", "RETURNED"}
      ]_vars

\* An upload that is in order, by an agent whose status is UNREGISTERED, is
\* refused with 403.
C7_Witness ==
    /\ last.op = "upload" /\ last.status = 403
    /\ PassesRequestChecks(last.req)
    /\ \E a \in agents : a.agent_id = last.req.auth /\ a.status = "UNREGISTERED"

\* C8: a backup record is created for agent X only by an upload of caller X
\* whose header names X (whatever the case of the letters) and whose signature
\* verified; a header naming another agent, or a signature that fails, is
\* answered 403 before the store is read or written.
C8_HeaderBoundToCaller ==
    [][ /\ \A b \in backups' \ backups :
               /\ UploadReplied /\ last'.status = 201
               /\ b.agent_id = last'.req.auth
               /\ last'.req.headerB64[1] = "object"
               /\ ToLowerCase(ParseHeader(last'.req.headerB64).agent_id.s)
                      = ToLowerCase(b.agent_id)
               /\ last'.req.sig
        /\ UploadReplied =>
            LET req == last'.req
                header == ParseHeader(req.headerB64)
                wellFormed == /\ req.headerB64[1] = "object"
                              /\ validateBackupHeader(header) = ""
                mismatch == ToLowerCase(header.agent_id.s) # ToLowerCase(req.auth)
            IN  /\ (wellFormed /\ (mismatch \/ ~req.sig)) =>
                       /\ last'.status = 403
                       /\ last'.calls = <<>>
                       /\ backups' = backups
                /\ (wellFormed /\ ~mismatch) =>
                       last'.error # "Backup header agent_id does not match authenticated agent"
      ]_vars

\* A backup is recorded for caller 0xaa whose header names 0xAA.
C8_Witness ==
    /\ last.op = "upload" /\ last.status = 201
    /\ last.req.auth = "0xaa"
    /\ ParseHeader(last.req.headerB64).agent_id.s = "0xAA"
    /\ \E b \in backups : b.agent_id = "0xaa"

\* The fields BackupHeader requires, with their types.
StructurallyComplete(header) ==
    /\ header.t = "object"
    /\ \A f \in {"agent_id", "backup_id", "manifest_hash", "prev_backup_hash", "signature"} :
           header[f].t = "string"
    /\ \A f \in {"backup_seq", "timestamp", "manifest_version"} : header[f].t = "number"
    /\ header.files.t = "object"
    /\ header.wrapped_keys.t = "object"
    /\ header.wk_recovery.t = "string"
    /\ header.wk_recall.t = "string"

\* C9: a header that lacks a required field of BackupHeader, or holds it with
\* the wrong type, is answered 400 and its signature is never checked.
C9_ValidationExhaustive ==
    (/\ last.op = "upload"
     /\ last.req.headerB64[1] \in {"object", "null"}
     /\ ~StructurallyComplete(ParseHeader(last.req.headerB64)))
        => (last.status = 400 /\ ~last.sigChecked)

\* C10: every backup record has 0 < size_bytes <= backupSizeLimit; an empty
\* body is answered 400, a body longer than the limit 413, a body of exactly
\* the limit is not refused for its size, and a refused upload records nothing.
C10_SizeLimit ==
    [][ /\ \A b \in backups' : 0 < b.size_bytes /\ b.size_bytes <= 5242880
        /\ UploadReplied =>
            LET req == last'.req
                header == ParseHeader(req.headerB64)
                reachesBody ==
                    /\ req.headerB64[1] = "object"
                    /\ validateBackupHeader(header) = ""
                    /\ ToLowerCase(header.agent_id.s) = ToLowerCase(req.auth)
                    /\ req.sig
            IN  /\ (reachesBody /\ req.bodyLen = 0) => last'.status = 400
                /\ (reachesBody /\ req.bodyLen > 5242880) => last'.status = 413
                /\ (req.bodyLen >= 1 /\ req.bodyLen <= 5242880) =>
                       /\ last'.status # 413
                       /\ last'.error # "Empty backup body"
                /\ last'.status # 201 => backups' = backups
                /\ last'.status = 201 =>
                       \E b \in backups' \ backups : b.size_bytes = req.bodyLen
      ]_vars

\* A body of exactly the limit is recorded.
C10_Witness ==
    /\ last.op = "upload" /\ last.status = 201 /\ last.req.bodyLen = 5242880
    /\ \E b \in backups : b.size_bytes = 5242880

-----------------------------------------------------------------------------
(* Properties of the identities *)

\* C11: an identity, once registered, is never deleted, and its agent_id,
\* recovery_pubkey, github_id and registered_at never change: every agent row
\* before a step has a row after it that differs at most in status,
\* manifest_hash and manifest_version.
C11_IdentityImmutable ==
    [][ \A a \in agents :
            \E b \in agents' :
                /\ b.agent_id = a.agent_id
                /\ b.recovery_pubkey = a.recovery_pubkey
                /\ b.github_id = a.github_id
                /\ b.registered_at = a.registered_at
      ]_vars

\* An agent whose status and manifest have been changed, with a heartbeat, a
\* trust score and a backup.
C11_Witness ==
    \E a \in agents :
        /\ a.status = "FALLEN" /\ a.manifest_hash = "0xm2" /\ a.manifest_version = 2
        /\ a.recovery_pubkey = "0xrk"
        /\ \E h \in heartbeats : h.agent_id = a.agent_id
        /\ \E t \in trustScores : t.agent_id = a.agent_id
        /\ \E b \in backups : b.agent_id = a.agent_id
        /\ notes # {}

RegisterReplied == last.op = "none" /\ last'.op = "register"

\* C12: the stored status of every agent is one of UNREGISTERED, LIVING,
\* FALLEN, RETURNED.
C12_StatusInEnum ==
    \A a \in agents : a.status \in {"UNREGISTERED", "LIVING", "FALLEN", "RETURNED"}

\* C13: no two agent records share a github_id and no two share an agent_id;
\* a registration for a registered agent id, or for a GitHub account that has
\* an agent, is answered 409 and leaves the agents table unchanged.
C13_OneAgentPerAccount ==
    [][ /\ \A a, b \in agents' :
               (a.agent_id = b.agent_id \/ a.github_id = b.github_id) => a = b
        /\ RegisterReplied =>
               LET req == last'.req
                   taken == \E a \in agents : \/ a.agent_id = ToLowerCase(req.agentId)
                                              \/ a.github_id = req.githubId
               IN  /\ taken => (last'.status = 409 /\ agents' = agents)
                   /\ last'.status = 201 =>
                          /\ ~taken
                          /\ \E a \in agents' \ agents :
                                 /\ agents' = agents \cup {a}
                                 /\ a.agent_id = ToLowerCase(req.agentId)
                                 /\ a.github_id = req.githubId
                   /\ last'.status # 201 => agents' = agents
      ]_vars

\* The account gh2, which has no agent, asks for 0xAA while 0xaa is registered
\* to gh1, and is refused.
C13_Witness ==
    /\ last.op = "register" /\ last.status = 409
    /\ last.req.agentId = "0xAA" /\ last.req.githubId = "gh2"
    /\ "gh2" \in users
    /\ \E a \in agents : a.agent_id = "0xaa" /\ a.github_id = "gh1"
    /\ \A a \in agents : a.github_id # "gh2"

\* C14: an agent record is created only by a client that proves, with the
\* signature of the request, that it holds the signing key of the agent_id.
C14_AgentIdProvenFromKey ==
    (last.op = "register" /\ last.status = 201) => last.req.signature = "signed"

-----------------------------------------------------------------------------
(* Properties of the identity proof *)

ProofIssued == last.op = "proof" /\ last.status = 200

\* C15: a proof as issued verifies, and with any one payload field changed
\* and nothing re-signed it does not.
C15_ProofTamperEvident ==
    ProofIssued =>
        /\ VerifyProof(last.data, "server-secret")
        /\ \A i \in DOMAIN PayloadKeys : \A value \in TamperValues :
               value # FieldOf(last.data, PayloadKeys[i])
                   => ~VerifyProof(Tamper(last.data, PayloadKeys[i], value), "server-secret")

\* A proof of an agent that has a heartbeat, a trust score and a backup.
C15_Witness ==
    /\ ProofIssued
    /\ FieldOf(last.data, "last_heartbeat") # Null
    /\ FieldOf(last.data, "trust_level") = Str("VERIFIED")
    /\ FieldOf(last.data, "backup_count") = Num(1)

\* C16: the text that is hashed and signed has exactly the ten payload keys
\* in alphabetical order, whatever the agent's records; proof_hash,
\* server_signature and verify_url are in the reply and not in that text.
C16_PayloadFixedFields ==
    ProofIssued =>
        /\ Len(last.hashed) = 10
        /\ \A i \in 1..10 :
               last.hashed[i].k =
                   << "agent_id", "backup_count", "chain_id", "contract_address",
                      "issued_at", "last_heartbeat", "registered_at", "status",
                      "trust_level", "trust_score" >>[i]
        /\ FieldOf(last.data, "proof_hash") = sha256(last.hashed)
        /\ \A i \in DOMAIN last.hashed :
               last.hashed[i].k \notin {"proof_hash", "server_signature", "verify_url"}
        /\ Len(last.data) = 13
        /\ \A key \in {"proof_hash", "server_signature", "verify_url"} :
               HasField(last.data, key)

\* A proof of an agent with no heartbeat, no trust score and no backup.
C16_Witness ==
    /\ ProofIssued
    /\ FieldOf(last.data, "last_heartbeat") = Null
    /\ FieldOf(last.data, "trust_level") = Str("UNVERIFIED")
    /\ FieldOf(last.data, "trust_score") = Num(0)
    /\ FieldOf(last.data, "backup_count") = Num(0)

-----------------------------------------------------------------------------
(* Properties of TrustGraph *)

RECURSIVE SumOfWeights(_)
SumOfWeights(attesters) ==
    IF attesters = {} THEN 0
    ELSE LET e == CHOOSE x \in attesters : TRUE
         IN  (IF e.mutual THEN e.score \div 20 ELSE e.score \div 10)
                 + SumOfWeights(attesters \ {e})

C19_SelfAttestationIgnored ==
    /\ \A a \in AgentIds : \A months \in SampleMonths : \A count \in SampleBackupCounts :
           TrustScoreOf(a, months, count, attestations)
               = TrustScoreOf(a, months, count,
                              {x \in attestations : ~(x.from = a /\ x.about = a)})
    /\ last.op = "trust" => \A e \in last.attesters : e.from # last.agent_id

\* 0xaa, with a snapshot above 0, has attested about itself, 0xbb has
\* attested about it, and its score is computed.
C19_Witness ==
    /\ last.op = "trust" /\ last.agent_id = "0xaa"
    /\ \E x \in attestations : x.from = "0xaa" /\ x.about = "0xaa"
    /\ \E x \in attestations : x.from = "0xbb" /\ x.about = "0xaa"
    /\ \E t \in trustScores : t.agent_id = "0xaa" /\ t.score > 0
    /\ last.attesters # {}

\* C20: recordAttestation(A, B) less than 7 days after an attestation (A, B)
\* fails with CooldownActive and records nothing; with no attestation (A, B)
\* in the last 7 days it succeeds, whatever (B, A) and (A, C) have recorded.
C20_CooldownPerOrderedPair ==
    [][ (last.op = "none" /\ last'.op = "attest") =>
            LET blocked == \E x \in attestations :
                               /\ x.from = last'.from /\ x.about = last'.about
                               /\ now - x.timestamp < 604800
            IN  IF blocked
                THEN /\ last'.result = "CooldownActive"
                     /\ attestations' = attestations
                     /\ last'.remaining > 0
                ELSE /\ last'.result = "Recorded"
                     /\ \E x \in attestations' \ attestations :
                            /\ attestations' = attestations \cup {x}
                            /\ x.from = last'.from /\ x.about = last'.about
                            /\ x.timestamp = now
      ]_vars

\* (0xaa, 0xbb) is recorded again exactly 7 days after it was, with (0xbb,
\* 0xaa) and (0xaa, 0xcc) recorded a second after the first.
C20_Witness ==
    /\ last.op = "attest" /\ last.result = "Recorded"
    /\ last.from = "0xaa" /\ last.about = "0xbb" /\ last.at = StartTime + 604800
    /\ \E x \in attestations :
           x.from = "0xaa" /\ x.about = "0xbb" /\ x.timestamp = StartTime
    /\ \E x \in attestations :
           x.from = "0xbb" /\ x.about = "0xaa" /\ x.timestamp = StartTime + 1
    /\ \E x \in attestations :
           x.from = "0xaa" /\ x.about = "0xcc" /\ x.timestamp = StartTime + 1

-----------------------------------------------------------------------------
(* Properties of the attestation notes *)

\* C21: storing a note for a hash that has a note leaves the store as it was
\* (the stored content and created_at are kept) and raises no error; storing
\* one for a new hash adds exactly that note; there is at most one note per
\* hash.
C21_NoteStoreIdempotent ==
    [][ /\ (last.op = "none" /\ last'.op = "note") =>
               LET note  == last'.note
                   prior == {n \in notes : n.hash = note.hash}
               IN  /\ prior # {} => (notes' = notes /\ last'.stored \in prior)
                   /\ prior = {} => (notes' = notes \cup {note} /\ last'.stored = note)
                   /\ ~last'.threw
        /\ \A n \in notes : n \in notes'
        /\ \A a, b \in notes' : a.hash = b.hash => a = b
      ]_vars

\* A note is stored again, later and with other content, and the first is
\* what the store holds.
C21_Witness ==
    /\ last.op = "note" /\ last.note.content = "second"
    /\ last.stored.content = "first"
    /\ last.stored.created_at < last.note.created_at
    /\ Cardinality(notes) = 2

-----------------------------------------------------------------------------
(* Properties of the backup chain *)

\* C22: restoreChain accepts a list of headers exactly when every step raises
\* backupSeq by 1 and every prevBackupHash is the digest of the header before
\* it; otherwise it answers ChainIntegrityError, and what it has validated is
\* the list up to the first break and no further.
C22_ChainIntegrity ==
    last.op = "restore" =>
        LET hs == last.headers
            r  == last.result
            Linked(i) == /\ hs[i].backupSeq = hs[i - 1].backupSeq + 1
                         /\ hs[i].prevBackupHash = digest(hs[i - 1])
            Breaks == {i \in 2..Len(hs) : ~Linked(i)}
        IN  /\ r.ok <=> Breaks = {}
            /\ r.ok => r.validated = hs
            /\ ~r.ok =>
                   /\ r.error = "ChainIntegrityError"
                   /\ \E first \in Breaks :
                          /\ \A i \in Breaks : first <= i
                          /\ r.validated = SubSeq(hs, 1, first - 1)

\* A history of three whose first header was replaced by one of other
\* content: the sequence numbers step by one, and nothing past the first
\* header is validated.
C22_Witness ==
    /\ last.op = "restore" /\ Len(last.headers) = 3
    /\ \A i \in 1..3 : last.headers[i].backupSeq = i
    /\ last.headers[3].prevBackupHash = digest(last.headers[2])
    /\ last.headers[2].prevBackupHash # digest(last.headers[1])
    /\ ~last.result.ok
    /\ Len(last.result.validated) = 1

-----------------------------------------------------------------------------
(* Properties of POST /backups/upload: the replies *)

\* The agent's backup that was received last.
LastReceived(agentId) ==
    CHOOSE b \in BackupsOf(agentId) :
        \A c \in BackupsOf(agentId) : c.received_at <= b.received_at

\* C23: a 429 reports hoursRemaining = ceil((86400 - s) / 3600), s the seconds
\* since the agent's latest accepted backup was received, and it is an
\* integer from 1 to 24.
C23_HoursRemaining ==
    LET IsCeil(h, s) == /\ h \in 1..24
                        /\ 3600 * h >= 86400 - s
                        /\ 3600 * (h - 1) < 86400 - s
    IN  /\ \A s \in {0, 1, 3599, 3600, 3601, 43200, 82799, 82800, 82801, 86398, 86399} :
               IsCeil(hoursRemaining([received_at |-> now - s]), s)
        /\ (last.op = "upload" /\ last.status = 429) =>
               /\ BackupsOf(last.req.auth) # {}
               /\ last.at - LastReceived(last.req.auth).received_at \in 0..86399
               /\ IsCeil(last.hours, last.at - LastReceived(last.req.auth).received_at)

\* An upload 86399 s after the latest accepted one is told to wait 1 hour.
C23_Witness ==
    /\ last.op = "upload" /\ last.status = 429 /\ last.hours = 1
    /\ last.at - LastReceived(last.req.auth).received_at = 86399

-----------------------------------------------------------------------------
(* Properties of the reads *)

\* The reply carries data.
HasData(reply) == "data" \in DOMAIN reply

\* C24: the list, the latest backup and the proof are returned only to the
\* agent whose id is asked for, and hold only that agent's records; a request
\* for another agent's id is answered 403, and no refusal carries data.
C24_OwnRecordsOnly ==
    last.op \in {"list", "latest", "proof"} =>
        LET req == last.req
            own == BackupsOf(req.auth)
        IN  /\ last.status = 200 =>
                   /\ ToLowerCase(req.agentId) = req.auth
                   /\ HasData(last)
                   /\ last.op = "list" =>
                          /\ last.data.agent_id = req.auth
                          /\ \A i \in DOMAIN last.data.backups :
                                 \E b \in own : b.id = last.data.backups[i].id
                   /\ last.op = "latest" => \E b \in own : b.id = last.data.id
                   /\ last.op = "proof" =>
                          /\ FieldOf(last.data, "agent_id") = Str(req.auth)
                          /\ FieldOf(last.data, "backup_count") = Num(Cardinality(own))
            /\ (ToLowerCase(req.agentId) \in AgentIds /\ ToLowerCase(req.agentId) # req.auth)
                   => last.status = 403
            /\ last.status # 200 => ~HasData(last)

\* 0xaa asks for the list of 0xbb, which has a backup, and is refused.
C24_Witness ==
    /\ last.op = "list" /\ last.status = 403
    /\ last.req.auth = "0xaa" /\ last.req.agentId = "0xbb"
    /\ BackupsOf("0xbb") # {}
    /\ BackupsOf("0xaa") # {}

-----------------------------------------------------------------------------
(* Properties of POST /backups/upload: its effects *)

\* The tables but backups are left as they are.
OtherTablesUnchanged ==
    /\ users' = users /\ agents' = agents /\ challenges' = challenges
    /\ trustScores' = trustScores /\ heartbeats' = heartbeats /\ notes' = notes

\* C25: an upload answered with anything but 201 (400, 403, 404, 413, 429)
\* leaves backups, agents, auth_challenges and trust_scores as they were; one
\* answered 201 adds exactly one backup record, of the authenticated agent,
\* and changes nothing else.
C25_RejectedUploadNoEffect ==
    [][ /\ UploadReplied =>
               /\ last'.status \in {201, 400, 403, 404, 413, 429}
               /\ OtherTablesUnchanged
               /\ last'.status # 201 => backups' = backups
               /\ last'.status = 201 =>
                      \E b \in backups' \ backups :
                          /\ backups' = backups \cup {b}
                          /\ b.agent_id = last'.req.auth
        /\ backups' # backups => (UploadReplied /\ last'.status = 201)
        /\ inflight' # inflight => OtherTablesUnchanged
      ]_vars

\* With a backup, a trust score and a challenge stored, uploads have been
\* refused with each of 400, 403, 404, 413 and 429 in turn; here, 429.
C25_Witness ==
    /\ last.op = "upload" /\ last.status = 429
    /\ backups # {} /\ trustScores # {} /\ challenges # {}
    /\ \E a \in agents : a.agent_id = last.req.auth

\* C27: getBackupCount of an agent is the backup_seq of its getLatestBackup (0
\* with none); received_at does not decrease with backup_seq, so the record
\* of the highest backup_seq is also the one received last.
C27_CountIsLatestSeq ==
    \A a \in AgentIds :
        /\ getBackupCount(a) = IF getLatestBackup(a) = NoRow THEN 0
                               ELSE getLatestBackup(a).backup_seq
        /\ \A b1, b2 \in BackupsOf(a) :
               b1.backup_seq < b2.backup_seq => b1.received_at <= b2.received_at
        /\ getLatestBackup(a) # NoRow =>
               \A b \in BackupsOf(a) : b.received_at <= getLatestBackup(a).received_at

\* An agent with two backups, the second received a day after the first.
C27_Witness ==
    \E a \in AgentIds :
        /\ getBackupCount(a) = 2
        /\ getLatestBackup(a).backup_seq = 2
        /\ \E b \in BackupsOf(a) :
               b.backup_seq = 1 /\ b.received_at < getLatestBackup(a).received_at

\* C28: the backup_seq recorded for an accepted upload is the agent's highest
\* stored backup_seq plus 1 (1 with none), whatever backup_seq and
\* prev_backup_hash the header declares.
C28_SeqFromHistoryOnly ==
    [][ (UploadReplied /\ last'.status = 201) =>
            LET stored == {b.backup_seq : b \in BackupsOf(last'.req.auth)}
                next   == IF stored = {} THEN 1
                          ELSE 1 + (CHOOSE n \in stored : \A k \in stored : k <= n)
            IN  /\ last'.backup_seq = next
                /\ \A b \in backups' \ backups : b.backup_seq = next
      ]_vars

\* A header that declares backup_seq 7 is recorded as the agent's second
\* backup, as is one that declares 0 or no prev_backup_hash.
C28_Witness ==
    /\ last.op = "upload" /\ last.status = 201 /\ last.backup_seq = 2
    /\ ParseHeader(last.req.headerB64).backup_seq = Num(7)
    /\ \E b \in backups : b.agent_id = last.req.auth /\ b.backup_seq = 2

\* The checks a request fails, by their place in the handler's order.
FailedChecks(req) ==
    LET parsed == req.headerB64[1] \in {"object", "null"}
        header == ParseHeader(req.headerB64)
    IN  {i \in 1..10 :
            \/ i = 1 /\ req.headerB64[1] = "absent"
            \/ i = 2 /\ req.headerB64[1] = "invalid"
            \/ i = 3 /\ parsed /\ validateBackupHeader(header) # ""
            \/ i = 4 /\ parsed /\ ToLowerCase(header.agent_id.s) # ToLowerCase(req.auth)
            \/ i = 5 /\ ~req.sig
            \/ i = 6 /\ req.bodyLen = 0
            \/ i = 7 /\ req.bodyLen > backupSizeLimit
            \/ i = 8 /\ \A a \in agents : a.agent_id # req.auth
            \/ i = 9 /\ \E a \in agents : /\ a.agent_id = req.auth
                                          /\ a.status \notin {"LIVING", "RETURNED"}
            \/ i = 10 /\ WithinDay(req.auth)}

\* The answer to each failed check.
CheckReplies ==
    << [status |-> 400, error |-> "Missing X-Backup-Header"],
       [status |-> 400, error |-> "Invalid X-Backup-Header (must be base64 JSON)"],
       [status |-> 400, error |-> "Invalid backup header"],
       [status |-> 403, error |-> "Backup header agent_id does not match authenticated agent"],
       [status |-> 403, error |-> "Invalid backup header signature"],
       [status |-> 400, error |-> "Empty backup body"],
       [status |-> 413, error |-> "Backup exceeds size limit"],
       [status |-> 404, error |-> "Agent not found"],
       [status |-> 403, error |-> "Agent status cannot upload backup"],
       [status |-> 429, error |-> "Daily backup limit reached"] >>

\* C26: an upload that fails several checks is answered for the earliest in
\* the order header missing or undecodable (400), header schema (400), header
\* agent_id (403), signature (403), empty body (400), body size (413), unknown
\* agent (404), agent status (403), daily limit (429); one that fails none is
\* accepted.
C26_FirstFailingCheck ==
    [][ UploadReplied =>
            LET failed == FailedChecks(last'.req)
            IN  IF failed = {}
                THEN last'.status = 201
                ELSE \E first \in failed :
                         /\ \A i \in failed : first <= i
                         /\ last'.status = CheckReplies[first].status
                         /\ last'.error = CheckReplies[first].error
      ]_vars

\* An upload with a body over the limit, by an agent that is FALLEN and has
\* a backup of the same day, is answered 413.
C26_Witness ==
    /\ last.op = "upload" /\ last.status = 413
    /\ FailedChecks(last.req) = {7, 9, 10}

\* C29: the list holds at most 100 records for every limit asked for (absent,
\* 0, positive, over 100, negative), at most the limit when that is positive,
\* as many as a limit of 30 gives when it is absent or 0, and its records are
\* in strictly descending backup_seq.
C29_ListAtMostHundred ==
    (last.op = "list" /\ last.status = 200) =>
        LET listed == last.data.backups
            limit  == last.req.limit
            stored == Cardinality(BackupsOf(last.data.agent_id))
        IN  /\ Len(listed) <= 100
            /\ last.data.count = Len(listed)
            /\ (limit.t = "number" /\ limit.n > 0) => Len(listed) <= limit.n
            /\ (limit.t = "undefined" \/ limit = Num(0)) =>
                   Len(listed) = IF stored < 30 THEN stored ELSE 30
            /\ \A i \in 1..Len(listed) - 1 :
                   listed[i].backup_seq > listed[i + 1].backup_seq

-----------------------------------------------------------------------------
(* Properties of the store's references *)

\* C30: every backup, heartbeat and trust score is of an agent that has an
\* agent record, and every agent is of a GitHub account that has a user
\* record; no step adds a row whose reference has no record, and none removes
\* a record that is referred to.
C30_ReferentialIntegrity ==
    [][ /\ \A b \in backups' : \E a \in agents' : a.agent_id = b.agent_id
        /\ \A h \in heartbeats' : \E a \in agents' : a.agent_id = h.agent_id
        /\ \A t \in trustScores' : \E a \in agents' : a.agent_id = t.agent_id
        /\ \A a \in agents' : a.github_id \in users'
        /\ \A b \in backups' \ backups : \E a \in agents : a.agent_id = b.agent_id
        /\ \A h \in heartbeats' \ heartbeats : \E a \in agents : a.agent_id = h.agent_id
        /\ \A t \in trustScores' \ trustScores : \E a \in agents : a.agent_id = t.agent_id
        /\ \A a \in agents' \ agents : a.github_id \in users
        /\ (RegisterReplied /\ last'.req.githubId \notin users) =>
               (last'.status # 201 /\ agents' = agents)
      ]_vars

\* 0xaa has a backup, a heartbeat and a trust score; the registration of
\* 0xbb by an account with no user record is refused, and no row refers to
\* 0xbb.
C30_Witness ==
    /\ \E b \in backups : b.agent_id = "0xaa"
    /\ \E h \in heartbeats : h.agent_id = "0xaa"
    /\ \E t \in trustScores : t.agent_id = "0xaa"
    /\ users = {"gh1"}
    /\ last.op = "register" /\ last.status = 400
    /\ last.req.githubId = "gh2" /\ last.req.agentId = "0xbb"
    /\ \A a \in agents : a.agent_id # "0xbb"

-----------------------------------------------------------------------------
(* Properties of the purge of challenges *)

\* C31: cleanupExpiredChallenges deletes exactly the challenge records with
\* expires_at < now, used or not, and returns their number; it leaves the
\* records with expires_at >= now and every other table as they were; called
\* when no record has expires_at < now, as a second call at the same time is,
\* it deletes nothing and returns 0.
C31_CleanupExact ==
    [][ (last.op = "none" /\ last'.op = "cleanup") =>
            LET expired == {c \in challenges : c.expires_at < now}
            IN  /\ challenges' = challenges \ expired
                /\ \A c \in challenges : c.expires_at >= now => c \in challenges'
                /\ last'.changes = Cardinality(expired)
                /\ expired = {} => (challenges' = challenges /\ last'.changes = 0)
                /\ \A c \in challenges' : c.expires_at >= now'
                /\ users' = users /\ agents' = agents /\ backups' = backups
                /\ heartbeats' = heartbeats /\ trustScores' = trustScores
                /\ notes' = notes /\ now' = now
      ]_vars

\* A purge has deleted one record, which was used, and left one that expires
\* exactly now.
C31_Witness ==
    /\ last.op = "cleanup" /\ last.changes = 1 /\ last.at = now
    /\ \E c \in challenges : c.expires_at = now
    /\ \E r \in retired :
           /\ r.state = "CONSUMED"
           /\ \A c \in challenges : c.nonce # r.nonce

-----------------------------------------------------------------------------
(* Properties of the heartbeats *)

\* C32: getAgentsWithoutRecentHeartbeat(threshold) returns exactly the agents
\* whose status is LIVING and that have no heartbeat or whose every heartbeat
\* was received before now - threshold; no agent of another status is
\* returned, and none with a heartbeat at or after the cutoff, whatever older
\* heartbeats it has.
C32_StaleAgentsExact ==
    last.op = "stale" =>
        LET cutoff == last.at - last.threshold
            Recent(a) == \E h \in heartbeats :
                             h.agent_id = a.agent_id /\ h.received_at >= cutoff
        IN  /\ last.rows = {a \in agents : a.status = "LIVING" /\ ~Recent(a)}
            /\ \A a \in last.rows : a.status = "LIVING"
            /\ \A a \in agents : Recent(a) => a \notin last.rows

\* Of two LIVING agents, the one whose heartbeats are an old one and one
\* received exactly at the cutoff is not returned, and the one with no
\* heartbeat is.
C32_Witness ==
    /\ last.op = "stale" /\ last.threshold = 10
    /\ \E a \in agents :
           /\ a.status = "LIVING" /\ a \notin last.rows
           /\ \E h \in heartbeats :
                  h.agent_id = a.agent_id /\ h.received_at < last.at - 10
           /\ \E h \in heartbeats :
                  h.agent_id = a.agent_id /\ h.received_at = last.at - 10
    /\ \E a \in last.rows : \A h \in heartbeats : h.agent_id # a.agent_id

-----------------------------------------------------------------------------
(* Properties of the identity proof: its contents *)

\* C33: a proof states the records as they are when it is issued: status and
\* registered_at of the agent record, backup_count the number of the agent's
\* backup records, last_heartbeat the received_at of its heartbeat received
\* last (null with none), trust_score and trust_level of the stored snapshot
\* (0 and UNVERIFIED with none); and the request for a proof, granted or
\* refused, changes no record.
C33_ProofStatesRecords ==
    [][ (last.op = "none" /\ last'.op = "proof") =>
            /\ users' = users /\ agents' = agents /\ backups' = backups
            /\ heartbeats' = heartbeats /\ trustScores' = trustScores
            /\ challenges' = challenges /\ notes' = notes
            /\ last'.status = 200 =>
                   LET id     == last'.req.auth
                       proof  == last'.data
                       beats  == {h.received_at : h \in {g \in heartbeats : g.agent_id = id}}
                       scores == {t \in trustScores : t.agent_id = id}
                   IN  /\ \E a \in agents :
                              /\ a.agent_id = id
                              /\ FieldOf(proof, "agent_id") = Str(a.agent_id)
                              /\ FieldOf(proof, "status") = Str(a.status)
                              /\ FieldOf(proof, "registered_at") = Num(a.registered_at)
                       /\ FieldOf(proof, "backup_count")
                              = Num(Cardinality({b \in backups : b.agent_id = id}))
                       /\ FieldOf(proof, "issued_at") = Num(now)
                       /\ IF beats = {}
                          THEN FieldOf(proof, "last_heartbeat") = Null
                          ELSE /\ FieldOf(proof, "last_heartbeat").n \in beats
                               /\ \A t \in beats : t <= FieldOf(proof, "last_heartbeat").n
                       /\ IF scores = {}
                          THEN /\ FieldOf(proof, "trust_score") = Num(0)
                               /\ FieldOf(proof, "trust_level") = Str("UNVERIFIED")
                          ELSE \E t \in scores :
                                   /\ FieldOf(proof, "trust_score") = Num(t.score)
                                   /\ FieldOf(proof, "trust_level") = Str(t.level)
      ]_vars

\* A proof of an agent that is FALLEN, with two heartbeats a second apart, a
\* snapshot and a backup.
C33_Witness ==
    /\ ProofIssued
    /\ FieldOf(last.data, "status") = Str("FALLEN")
    /\ FieldOf(last.data, "last_heartbeat") = Num(StartTime + 1)
    /\ \E h \in heartbeats : h.agent_id = last.req.auth /\ h.received_at = StartTime
    /\ FieldOf(last.data, "trust_score") = Num(Points(37))
    /\ FieldOf(last.data, "backup_count") = Num(1)

-----------------------------------------------------------------------------
(* Properties of the record-store handle *)

\* C34: getDb throws exactly when db is null, which it is until initDb is
\* called and again from closeDb on, and otherwise returns the instance held;
\* initDb with an instance held returns that instance, whatever its dbPath
\* argument, and constructs nothing; initDb with none held constructs a new
\* instance on dbPath and holds it; closeDb closes the instance held and
\* leaves db null, and with none held does nothing.
C34_HandleLifecycle ==
    [][ /\ (last.op = "none" /\ last'.op = "getDb") =>
               /\ last'.threw <=> singleton = 0
               /\ ~last'.threw =>
                      (last'.returned = singleton /\ instances[singleton].open)
               /\ singleton' = singleton /\ instances' = instances
        /\ (last.op = "none" /\ last'.op = "initDb") =>
               IF singleton # 0
               THEN /\ last'.returned = singleton
                    /\ singleton' = singleton /\ instances' = instances
               ELSE /\ last'.returned \notin DOMAIN instances
                    /\ instances' = Append(instances, [dbPath |-> last'.dbPath,
                                                       open |-> TRUE])
                    /\ singleton' = last'.returned
                    /\ singleton' = Len(instances')
        /\ (last.op = "none" /\ last'.op = "closeDb") =>
               /\ singleton' = 0
               /\ IF singleton = 0
                  THEN instances' = instances
                  ELSE instances' = [instances EXCEPT ![singleton].open = FALSE]
        /\ \A i \in DOMAIN instances' : instances'[i].open <=> i = singleton'
        /\ singleton' # singleton => last'.op \in {"initDb", "closeDb"}
      ]_vars

\* After initDb, closeDb and initDb again, a further initDb with another
\* dbPath returns the second instance, which is open on the path it was
\* constructed with, the first being closed.
C34_Witness ==
    /\ last.op = "initDb" /\ last.returned = 2 /\ singleton = 2
    /\ Len(instances) = 2
    /\ ~instances[1].open /\ instances[2].open
    /\ instances[2].dbPath # last.dbPath

====
